---- MODULE Spec2Model ----
(***************************************************************************)
(* Model of the stream synchronisation core of the Airbyte CDK             *)
(* (airbyte_cdk/sources/streams/core.py): the two checkpoint readers and   *)
(* Stream.read(), the loop that pulls units of work, emits records and     *)
(* checkpoints state.                                                      *)
(*                                                                         *)
(* Three specifications are given:                                         *)
(*   Spec            one call of Stream.read(), step by step;              *)
(*   SpecReader      arbitrary sequences of calls on a checkpoint reader;  *)
(*   SpecDescriptor  as_airbyte_stream() on a declared primary key.        *)
(***************************************************************************)
EXTENDS Integers, Sequences, FiniteSets, TLC

\* ------------------------------------------------------------------ bounds
MaxSlices == 2      \* stream_slices() returns 0..MaxSlices partitions
MaxRecords == 2     \* items one read_records() call yields at most
MaxCursor == 2      \* cursor / page values are 1..MaxCursor
MaxInterval == 2    \* state_checkpoint_interval is None (0) or 1..MaxInterval
MaxLimit == 1       \* the internal record limit is absent (0) or 1..MaxLimit

\* ------------------------------------------------------- values and helpers
\* A Python Optional[Mapping]: None is <<>>, a mapping m is <<m>>, and a mapping
\* is a set of <<key, value>> pairs.
None == <<>>
EmptyMapping == <<{}>>
Mapping(k, v) == <<{<<k, v>>}>>

\* Python truthiness of an Optional[Mapping]: None and {} are falsy.
Truthy(s) == s # None /\ s # EmptyMapping

\* s.get(k, 0) for an Optional[Mapping] s.
Get(s, k) ==
    IF s # None /\ \E p \in s[1] : p[1] = k
    THEN (CHOOSE p \in s[1] : p[1] = k)[2]
    ELSE 0

FULL_REFRESH_SENTINEL_STATE_KEY == "__ab_full_refresh_state_message"
\* {FULL_REFRESH_SENTINEL_STATE_KEY: True}; Python's True equals 1.
SentinelState == Mapping(FULL_REFRESH_SENTINEL_STATE_KEY, 1)

full_refresh == "full_refresh"
incremental == "incremental"

CursorKey == "updated_at"
PageKey == "page"

\* The states a resource can hold or receive: the empty mapping, a cursor
\* bookmark or a page bookmark.
CursorStates == {EmptyMapping} \cup {Mapping(CursorKey, n) : n \in 1..MaxCursor}
PageStates == {EmptyMapping} \cup {Mapping(PageKey, n) : n \in 1..MaxCursor}

\* Units of work handed to read_records as stream_slice. A partition descriptor
\* is an opaque value; a generator object is what calling a generator function
\* returns; the pagination reader hands out its stored state.
SliceUnit(p) == [tag |-> "slice", slice |-> p, over |-> <<>>, state |-> None]
GeneratorOver(slices) == [tag |-> "generator", slice |-> 0, over |-> slices, state |-> None]
StateUnit(s) == [tag |-> "state", slice |-> 0, over |-> <<>>, state |-> s]

VARIABLES
    stream,             \* the resource: its capability flags and what it produces
    args,               \* the arguments of read(): sync mode, incoming state, limit
    self_state,         \* the value of the stream's state property (if it has one)
    stream_state,       \* read()'s local stream_state
    checkpoint_reader,  \* the CheckpointReader of this sync attempt
    has_slices,
    record_counter,
    is_complete,
    pc,                 \* the position of read(): start, loop, records, boundary, post, done
    unit_items,         \* items the current read_records() generator has yielded
    output,             \* the messages read() has yielded, in order
    manager_state,      \* the state manager's entries, one per (name, namespace)
    read_calls,         \* the read_records() calls made so far, in order
    reported,           \* the value of the state property at the end of each unit
    api,                \* the last call made on the reader (SpecReader)
    yielded,            \* the items the read_records() generators have yielded, in order
    calls,              \* the calls read() made on the stream, the reader and the state manager
    descriptor,         \* the declared primary key and the AirbyteStream built from it
    context,            \* the PublishConnectorContext of a publish pipeline
    results,            \* the StepResults run_connector_publish_pipeline has collected
    attempts,           \* the attempts argument of the _run() frame being executed
    registry,           \* what the registry steps did, attempt by attempt
    suspended           \* the frame of a second read() generator that is not running

vars == <<stream, args, self_state, stream_state, checkpoint_reader, has_slices,
          record_counter, is_complete, pc, unit_items, output, manager_state,
          read_calls, reported, api, yielded, calls, descriptor,
          context, results, attempts, registry, suspended>>

\* The variables of the publish pipeline, which read() leaves alone.
publish_vars == <<context, results, attempts, registry>>

\* ------------------------------------------------------- checkpoint readers
IncrementalCheckpointReader(slices) ==
    [kind |-> "Incremental", _state |-> None, _stream_slices |-> slices]

\* next() is a generator function (its body is a yield): calling it returns a
\* fresh generator object over the whole partition sequence and never raises.
IncrementalNext(r) == [raised |-> FALSE, value |-> GeneratorOver(r._stream_slices)]

\* Mutant: has_next() as bool(self._stream_slices).
IncrementalHasNextNonEmpty(r) == r._stream_slices # <<>>
IncrementalHasNext(r) == TRUE

\* Mutant: only the first observation is stored.
IncrementalObserveOnce(r, new_state) ==
    IF r._state = None THEN [r EXCEPT !._state = new_state] ELSE r
IncrementalObserve(r, new_state) == [r EXCEPT !._state = new_state]

IncrementalReadState(r) == r._state

\* Mutant: the reader is constructed with self._state = {}.
RfrReaderStartsEmpty ==
    [kind |-> "RFR", _state |-> EmptyMapping, _stream_slices |-> <<>>]
ResumableFullRefreshCheckpointReader ==
    [kind |-> "RFR", _state |-> None, _stream_slices |-> <<>>]

\* Mutant: next() as self._state or {}.
RfrNextOrEmpty(r) ==
    [raised |-> FALSE, value |-> StateUnit(IF r._state = None THEN EmptyMapping ELSE r._state)]
RfrNext(r) == [raised |-> FALSE, value |-> StateUnit(r._state)]

\* Mutant: has_next() as bool(self._state), false for None as well.
RfrHasNextTruthy(r) == Truthy(r._state)
RfrHasNext(r) == r._state # EmptyMapping

RfrObserve(r, new_state) == [r EXCEPT !._state = new_state]

RfrReadState(r) == r._state

\* Dynamic dispatch on the reader's class.
ReaderNext(r) == IF r.kind = "RFR" THEN RfrNext(r) ELSE IncrementalNext(r)
ReaderHasNext(r) == IF r.kind = "RFR" THEN RfrHasNext(r) ELSE IncrementalHasNext(r)
ReaderObserve(r, s) == IF r.kind = "RFR" THEN RfrObserve(r, s) ELSE IncrementalObserve(r, s)
ReaderReadState(r) == IF r.kind = "RFR" THEN RfrReadState(r) ELSE IncrementalReadState(r)

\* ------------------------------------------------------ capability contract
\* cursor_field is a str or a list of str: [is_str, path]. The default is [].
NoCursorField == [is_str |-> FALSE, path |-> <<>>]
StrCursorField(f) == [is_str |-> TRUE, path |-> <<f>>]

\* bool(cursor_field): a non-empty str or a non-empty list.
CursorFieldDeclared(s) == s.cursor_field.path # <<>>

\* [self.cursor_field] if isinstance(self.cursor_field, str) else self.cursor_field
_wrapped_cursor_field(s) == s.cursor_field.path

\* Mutant: len(...) >= 0, true without a cursor field.
supports_incremental_always(s) == Len(_wrapped_cursor_field(s)) >= 0
supports_incremental(s) == Len(_wrapped_cursor_field(s)) > 0

\* The default get_updated_state() returns {}; a legacy incremental stream
\* overrides it to keep the larger of the current and the record's cursor.
get_updated_state(s, current_stream_state, latest_record) ==
    IF s.overrides_get_updated_state
    THEN LET cur == Get(current_stream_state, CursorKey)
         IN  Mapping(CursorKey, IF latest_record.cursor > cur THEN latest_record.cursor ELSE cur)
    ELSE EmptyMapping

\* InternalConfig.is_limit_reached(records_counter): a limit of 0 is no limit.
is_limit_reached(limit, records_counter) == limit # 0 /\ records_counter >= limit

\* The states a resource reports through its state property.
StatesOf(s) == IF s.supports_resumable_full_refresh THEN PageStates ELSE CursorStates

\* ------------------------------------------------------------- primary key
\* A declared primary_key is any Python value: None, a str, an int (standing
\* for every type that is neither str nor list) or a list of components; a
\* component is a str, a list of str, or something else (an int, None).
MaxKeyLen == 2      \* a list-valued primary_key has 0..MaxKeyLen components

CStr(s) == [type |-> "str", str |-> s, strs |-> <<>>]
CList(strs) == [type |-> "list", str |-> "", strs |-> strs]
COther(type) == [type |-> type, str |-> "", strs |-> <<>>]
Components ==
    {CStr("id"), CStr("name"), CList(<<>>), CList(<<"id">>), CList(<<"id", "name">>),
     COther("int"), COther("NoneType")}

PyNone == [type |-> "NoneType", str |-> "", int |-> 0, items |-> <<>>]
PyStr(s) == [type |-> "str", str |-> s, int |-> 0, items |-> <<>>]
PyInt(n) == [type |-> "int", str |-> "", int |-> n, items |-> <<>>]
PyList(items) == [type |-> "list", str |-> "", int |-> 0, items |-> items]

PrimaryKeys ==
    {PyNone, PyStr(""), PyStr("id"), PyInt(0), PyInt(1)}
    \cup {PyList(items) : items \in UNION {[1..n -> Components] : n \in 0..MaxKeyLen}}

\* bool(keys)
PyTruthy(k) ==
    CASE k.type = "NoneType" -> FALSE
      [] k.type = "str" -> k.str # ""
      [] k.type = "int" -> k.int # 0
      [] OTHER -> k.items # <<>>

Returned(value) == [raised |-> FALSE, value |-> value]
ValueError == [raised |-> TRUE, value |-> None]

\* The wrapping of one component: [component] for a str, the list itself for
\* a list.
WrapComponent(c) == IF c.type = "str" THEN <<c.str>> ELSE c.strs

\* Mutant: a component that is neither str nor list is skipped over.
_wrapped_primary_key_lenient(keys) ==
    IF ~PyTruthy(keys) THEN Returned(None)
    ELSE IF keys.type = "str" THEN Returned(<< << <<keys.str>> >> >>)
    ELSE IF keys.type = "list"
         THEN Returned(<< [i \in 1..Len(keys.items) |-> WrapComponent(keys.items[i])] >>)
         ELSE ValueError

\* Stream._wrapped_primary_key: None for a falsy declaration, [[k]] for a str,
\* the component-wise wrapping for a list, ValueError otherwise. The value
\* returned is an Optional: None or <<list of lists>>.
_wrapped_primary_key(keys) ==
    IF ~PyTruthy(keys) THEN Returned(None)
    ELSE IF keys.type = "str" THEN Returned(<< << <<keys.str>> >> >>)
    ELSE IF keys.type = "list"
         THEN IF \E i \in 1..Len(keys.items) : keys.items[i].type \notin {"str", "list"}
              THEN ValueError
              ELSE Returned(<< [i \in 1..Len(keys.items) |-> WrapComponent(keys.items[i])] >>)
         ELSE ValueError

\* The AirbyteStream as_airbyte_stream() builds from the declaration, or the
\* exception it ends with.
Descriptor(primary_key, built, raised, modes, source_defined_primary_key) ==
    [primary_key |-> primary_key, built |-> built, raised |-> raised,
     supported_sync_modes |-> modes,
     source_defined_primary_key |-> source_defined_primary_key]

NotDeclared == Descriptor(PyNone, FALSE, FALSE, <<>>, None)

\* ------------------------------------------------------------ state manager
\* update_state_for_stream(name, namespace, value) followed by
\* create_state_message(name, namespace): the message carries the stored value.
StateMessage(site, unit, value) ==
    [type |-> "STATE", site |-> site, unit |-> unit, idx |-> 0, cursor |-> 0, state |-> value]

RecordMessage(unit, idx, c) ==
    [type |-> "RECORD", site |-> "records", unit |-> unit, idx |-> idx, cursor |-> c, state |-> None]

\* A message of read_records that is no data record (a log or trace envelope).
OtherMessage(unit) ==
    [type |-> "LOG", site |-> "records", unit |-> unit, idx |-> 0, cursor |-> 0, state |-> None]

SliceLogMessage(unit) ==
    [type |-> "LOG", site |-> "slice", unit |-> unit, idx |-> 0, cursor |-> 0, state |-> None]

\* Mutant: the state property is not consulted, the state passed in is stored.
_checkpoint_state_fallback_only(s, self_st, st) == st

\* The value _checkpoint_state persists: the state property if the stream has
\* one (no AttributeError), else the stream_state passed in.
_checkpoint_state(s, self_st, st) == IF s.has_state THEN self_st ELSE st

\* The value _new_checkpoint_state persists.
_new_checkpoint_state(r) == ReaderReadState(r)

\* Mutant: the state is observed unless it is None (if new_state is not None).
_observe_state_wrapper_not_none(s, self_st, r, st) ==
    LET new_state == IF s.has_state THEN self_st ELSE st
    IN  IF new_state # None THEN ReaderObserve(r, new_state) ELSE r

\* _observe_state_wrapper: the state property if present, else the argument;
\* observed only when truthy. Returns the reader after the call.
_observe_state_wrapper(s, self_st, r, st) ==
    LET new_state == IF s.has_state THEN self_st ELSE st
    IN  IF Truthy(new_state) THEN ReaderObserve(r, new_state) ELSE r

\* ------------------------------------------------- the calls read() makes
\* calls logs every call read() makes on the stream, the reader and the state
\* manager: the operation, the number of messages read() had yielded when the
\* call was made, the state passed, and the stream the state manager is told.
StreamKey == [name |-> "users", namespace |-> "public"]
OtherStreamKey == [name |-> "orders", namespace |-> "public"]
StreamKeys == {StreamKey, OtherStreamKey}
NoKey == [name |-> "", namespace |-> ""]

\* (self.name, self.namespace), under which the stream's state is kept.
KeyOf(s) == [name |-> s.name, namespace |-> s.namespace]

\* The state manager before any checkpoint: no entry holds a state.
NoStateSaved == [k \in StreamKeys |-> None]

\* Mutant: the state manager keeps one state for all streams.
update_state_for_stream_unkeyed(mgr, s, st) == [k \in DOMAIN mgr |-> st]

\* state_manager.update_state_for_stream(self.name, self.namespace, state)
update_state_for_stream(mgr, s, st) == [mgr EXCEPT ![KeyOf(s)] = st]
Called(op, at, arg, key) == [op |-> op, at |-> at, arg |-> arg, key |-> key]

\* The attempt to read self.state: it returns the state property's value, or
\* raises the AttributeError that the caller catches.
StateAttempt(s, self_st, at) ==
    IF s.has_state
    THEN Called("state", at, self_st, NoKey)
    ELSE Called("state!AttributeError", at, None, NoKey)

\* Mutant: the state is stored in the try block and again in the handler.
_checkpoint_state_calls_update_twice(s, self_st, st, at) ==
    << StateAttempt(s, self_st, at),
       Called("update_state_for_stream", at, self_st, KeyOf(s)),
       Called("update_state_for_stream", at, st, KeyOf(s)),
       Called("create_state_message", at, None, KeyOf(s)) >>

\* _checkpoint_state: the attempt on self.state, one update_state_for_stream
\* (the AttributeError is raised before the call in the try block is made),
\* then create_state_message.
_checkpoint_state_calls(s, self_st, st, at) ==
    << StateAttempt(s, self_st, at),
       Called("update_state_for_stream", at, _checkpoint_state(s, self_st, st), KeyOf(s)),
       Called("create_state_message", at, None, KeyOf(s)) >>

\* _new_checkpoint_state: update_state_for_stream, then create_state_message.
_new_checkpoint_state_calls(s, r, at) ==
    << Called("update_state_for_stream", at, _new_checkpoint_state(r), KeyOf(s)),
       Called("create_state_message", at, None, KeyOf(s)) >>

\* _observe_state_wrapper: the attempt on self.state and the observe() call it
\* makes, if any.
_observe_state_wrapper_calls(s, self_st, st, at) ==
    LET new_state == IF s.has_state THEN self_st ELSE st
    IN  <<StateAttempt(s, self_st, at)>>
        \o (IF Truthy(new_state) THEN <<Called("observe", at, new_state, NoKey)>> ELSE <<>>)

\* An item pulled from a read_records() generator, with the number of messages
\* read() had yielded before it was pulled.
Pulled(item, at) == [item |-> item, at |-> at]

\* The generator raised instead of yielding an item.
RaisedError(unit) ==
    [type |-> "ERROR", site |-> "records", unit |-> unit, idx |-> 0, cursor |-> 0, state |-> None]

\* ------------------------------------------------------------ Stream.read()
MaxUnits == 3       \* read_records() calls one read() may make in the model

\* record_counter = 0 before the loop.
\* Mutant: the counter starts at one.
RecordCounterFromOne == 0 + 1
InitialRecordCounter == 0

\* Mutant: the checkpoint fires one record early.
IntervalCheckpointDueOneEarly(sync_mode, checkpoint_interval, counter) ==
    /\ sync_mode = incremental
    /\ checkpoint_interval # 0
    /\ (counter + 1) % checkpoint_interval = 0

\* Mutant: an absent interval is read as 1 (checkpoint_interval or 1).
IntervalCheckpointDueAbsentAsOne(sync_mode, checkpoint_interval, counter) ==
    /\ sync_mode = incremental
    /\ counter % (IF checkpoint_interval = 0 THEN 1 ELSE checkpoint_interval) = 0

\* Mutant: the sync mode is not tested.
IntervalCheckpointDueAnyMode(sync_mode, checkpoint_interval, counter) ==
    /\ checkpoint_interval # 0
    /\ counter % checkpoint_interval = 0

\* checkpoint_interval and record_counter % checkpoint_interval == 0, under
\* the sync_mode == SyncMode.incremental gate.
IntervalCheckpointDue(sync_mode, checkpoint_interval, counter) ==
    /\ sync_mode = incremental
    /\ checkpoint_interval # 0
    /\ counter % checkpoint_interval = 0

\* not has_slices or sync_mode == SyncMode.full_refresh
FinalCheckpointDue(slices_seen, sync_mode) ==
    ~slices_seen \/ sync_mode = full_refresh

\* is_complete = checkpoint_reader.has_next()
LoopComplete(r) == ReaderHasNext(r)

\* Mutant: the interval checkpoint is yielded before its record.
EmitRecordCheckpointFirst(out, rec, due, checkpoint) ==
    IF due THEN Append(Append(out, checkpoint), rec) ELSE Append(out, rec)

\* Mutant: a record that triggers a checkpoint is emitted out of order, before
\* the message emitted last.
EmitRecordHeldBack(out, rec, due, checkpoint) ==
    IF due /\ out # <<>>
    THEN Append(Append(SubSeq(out, 1, Len(out) - 1), rec), out[Len(out)]) \o <<checkpoint>>
    ELSE Append(out, rec)

\* Lines 259-279: the record is yielded first, then the interval checkpoint.
EmitRecord(out, rec, due, checkpoint) ==
    IF due THEN Append(Append(out, rec), checkpoint) ELSE Append(out, rec)

\* Mutant: no boundary checkpoint when there is no state to persist.
EmitBoundarySkipNone(out, checkpoint) ==
    IF checkpoint.state = None THEN out ELSE Append(out, checkpoint)

\* Lines 284-286: the boundary checkpoint is yielded whatever the state is.
EmitBoundary(out, checkpoint) == Append(out, checkpoint)

\* Mutant: every message of read_records() counts as a data record.
IsDataRecordAnyMessage(m) == m.type \in {"RECORD", "LOG"}

\* isinstance(record_data_or_message, Mapping) or (hasattr(..., "type") and
\* record_data_or_message.type == MessageType.RECORD)
IsDataRecord(m) == m.type = "RECORD"

\* Mutant: read_records() is handed the reader's state as stream_state.
ReadRecordsStreamStateFromReader(st, r) == ReaderReadState(r)

\* read_records(..., stream_state=stream_state): the local stream_state.
ReadRecordsStreamState(st, r) == st

\* Mutant: the legacy state is derived for a pagination resource as well.
ObservesRecordStateAnyStrategy(s) == CursorFieldDeclared(s)

\* Mutant: the legacy state is derived without a declared cursor field.
ObservesRecordStateNoCursor(s) == ~s.supports_resumable_full_refresh

\* if self.cursor_field and not self.supports_resumable_full_refresh
ObservesRecordState(s) == CursorFieldDeclared(s) /\ ~s.supports_resumable_full_refresh

\* Mutant: an exception of read_records() is swallowed and the unit is closed.
OnReadRecordsErrorCloseUnit == "boundary"

\* The record loop sits in no try block: an exception raised by the
\* read_records() generator leaves read() and reaches its caller.
OnReadRecordsError == "raised"

\* The number of the unit being read, and the data records emitted for it.
CurrentUnit == Len(read_calls)
DataRecordsOf(out, u) ==
    Cardinality({i \in 1..Len(out) : out[i].type = "RECORD" /\ out[i].unit = u})

\* ------------------------------------------------- publish pipeline values
SUCCESS == "SUCCESS"
FAILURE == "FAILURE"
SKIPPED == "SKIPPED"
StepStatus == {SUCCESS, FAILURE, SKIPPED}
StepResult(step, status) == [step |-> step, status |-> status]

\* ConnectorReport(context, results, name="PUBLISH RESULTS")
ConnectorReport(steps_results) == [name |-> "PUBLISH RESULTS", steps_results |-> steps_results]
NoReport == [name |-> "", steps_results |-> <<>>]

\* What the pipeline reads of its PublishConnectorContext: the connector's
\* language, whether a python registry context can be derived from it, whether
\* the registry token and url are set, the release flags, and the report.
PublishConnectorContext(language, registry_context, credentials, candidate, pre_release) ==
    [ language |-> language,
      python_registry_context |-> registry_context,
      python_registry_credentials |-> credentials,
      is_release_candidate |-> candidate,
      pre_release |-> pre_release,
      report |-> NoReport ]
NoContext == PublishConnectorContext("", FALSE, FALSE, FALSE, FALSE)

\* async def _run(self, built_containers_per_platform, attempts: int = 3)
attempts_default == 3
\* async def _run(self, attempt: int = 3)
attempt_default == 3

\* No publish pipeline is running.
PublishIdle ==
    /\ context = NoContext
    /\ results = <<>>
    /\ attempts = 0
    /\ registry = <<>>

\* No second read() generator exists.
NoFrame == <<>>

Streams ==
    { s \in [ supports_resumable_full_refresh : BOOLEAN,
              cursor_field : {NoCursorField, StrCursorField(CursorKey)},
              has_state : BOOLEAN,
              overrides_get_updated_state : BOOLEAN,
              \* no interval, every record, or the longest interval
              state_checkpoint_interval : {0, 1, MaxInterval},
              \* no slice, one slice, or the most slices
              slices : {[i \in 1..k |-> i] : k \in {0, 1, MaxSlices}},
              name : {StreamKey.name},
              namespace : {StreamKey.namespace} ] :
        \* get_updated_state() is overridden by legacy streams only: the state
        \* property, where there is one from the start, takes precedence over
        \* its result
        /\ s.overrides_get_updated_state => ~s.has_state
        \* stream_slices() is not called for a resumable-full-refresh stream
        /\ s.supports_resumable_full_refresh => s.slices = <<>> }

\* The incoming stream_state: nothing saved yet, or an earlier bookmark.
IncomingStates(s) ==
    {EmptyMapping,
     Mapping(IF s.supports_resumable_full_refresh THEN PageKey ELSE CursorKey, 1)}

Args(s) ==
    [ sync_mode : {full_refresh, incremental},
      stream_state : IncomingStates(s),
      limit : 0..MaxLimit,
      log_slices : BOOLEAN ]

Init ==
    /\ stream \in Streams
    /\ args \in Args(stream)
    \* a stream with a state property was assigned the incoming state
    /\ self_state = IF stream.has_state THEN args.stream_state ELSE None
    /\ stream_state = args.stream_state
    /\ checkpoint_reader = IncrementalCheckpointReader(<<>>)
    /\ has_slices = FALSE
    /\ record_counter = 0
    /\ is_complete = FALSE
    /\ pc = "start"
    /\ unit_items = 0
    /\ output = <<>>
    /\ manager_state = NoStateSaved
    /\ read_calls = <<>>
    /\ reported = <<>>
    /\ api = [op |-> "none"]
    /\ yielded = <<>>
    /\ calls = <<>>
    /\ descriptor = NotDeclared
    /\ PublishIdle
    /\ suspended = NoFrame

\* Lines 225-242: the strategy is selected and the loop variables are set.
StrategySelect ==
    /\ pc = "start"
    /\ checkpoint_reader' =
         IF stream.supports_resumable_full_refresh
         THEN _observe_state_wrapper(stream, self_state, ResumableFullRefreshCheckpointReader, None)
         ELSE IncrementalCheckpointReader(stream.slices)
    /\ has_slices' = FALSE
    /\ record_counter' = InitialRecordCounter
    /\ is_complete' = FALSE
    /\ calls' =
         IF stream.supports_resumable_full_refresh
         THEN calls \o _observe_state_wrapper_calls(stream, self_state, None, Len(output))
         ELSE Append(calls, Called("stream_slices", Len(output), stream_state, NoKey))
    /\ pc' = "loop"
    /\ UNCHANGED <<stream, args, self_state, stream_state, unit_items, output,
                   manager_state, read_calls, reported, api, yielded, descriptor, publish_vars, suspended>>

\* What read_records() can yield as its next data record: the record's cursor
\* value and the state property after the record was produced. A stream with
\* a state property bookmarks the record or leaves its state alone; read()
\* reads a record's cursor only through an overridden get_updated_state(), so
\* where none is consulted one cursor value stands for all. A legacy stream
\* whose state property appeared during the sync keeps the state it appeared
\* with.
RecordsYielded(s, self_st) ==
    IF s.has_state /\ ~s.overrides_get_updated_state
    THEN {[cursor |-> c,
           state |-> Mapping(IF s.supports_resumable_full_refresh THEN PageKey ELSE CursorKey, c)] :
              c \in 1..MaxCursor}
         \cup {[cursor |-> 1, state |-> self_st]}
    ELSE IF s.overrides_get_updated_state
         THEN {[cursor |-> c, state |-> self_st] : c \in 1..MaxCursor}
         ELSE {[cursor |-> 1, state |-> self_st]}

\* Lines 243-257: the loop test, next(), the slice log message and the call of
\* read_records().
LoopHead ==
    /\ pc = "loop"
    /\ Len(read_calls) < MaxUnits
    /\ LET n == ReaderNext(checkpoint_reader)
           enter == ~is_complete /\ ~n.raised
       IN  /\ pc' = IF enter THEN "records" ELSE "post"
           /\ has_slices' = IF enter THEN TRUE ELSE has_slices
           /\ output' = IF enter /\ args.log_slices
                        THEN Append(output, SliceLogMessage(CurrentUnit + 1))
                        ELSE output
           /\ read_calls' = IF enter
                            THEN Append(read_calls,
                                        [stream_slice |-> n.value,
                                         stream_state |->
                                             ReadRecordsStreamState(stream_state,
                                                                    checkpoint_reader)])
                            ELSE read_calls
           /\ unit_items' = IF enter THEN 0 ELSE unit_items
    /\ UNCHANGED <<stream, args, self_state, stream_state, checkpoint_reader,
                   record_counter, is_complete, manager_state, reported, api,
                   yielded, calls, descriptor, publish_vars, suspended>>

\* Lines 258-282 for a data record: the partition reader yields a record with
\* cursor value c (a stream with a state property may first move its state to
\* the record's cursor); read() emits it, observes, counts, checkpoints on the
\* interval and tests the limit.
YieldRecord ==
    /\ pc = "records"
    /\ unit_items < MaxRecords
    /\ \E yld \in RecordsYielded(stream, self_state) :
         LET c == yld.cursor
             st == yld.state
             rec == RecordMessage(CurrentUnit, DataRecordsOf(output, CurrentUnit) + 1, c)
             derives == ObservesRecordState(stream)
             updated == get_updated_state(stream, stream_state, rec)
             rdr == IF derives
                    THEN _observe_state_wrapper(stream, st, checkpoint_reader, updated)
                    ELSE checkpoint_reader
             at == Len(output) + 1
             counter == record_counter + 1
             due == IntervalCheckpointDue(args.sync_mode, stream.state_checkpoint_interval, counter)
             persisted == _checkpoint_state(stream, st, stream_state)
         IN  /\ self_state' = st
             /\ checkpoint_reader' = rdr
             /\ record_counter' = counter
             /\ output' = EmitRecord(output, rec, due,
                                     StateMessage("interval", CurrentUnit, persisted))
             /\ manager_state' = IF due
                                 THEN update_state_for_stream(manager_state, stream, persisted)
                                 ELSE manager_state
             /\ yielded' = Append(yielded, Pulled(rec, Len(output)))
             /\ calls' = calls
                    \o (IF derives
                        THEN <<Called("get_updated_state", at, stream_state, NoKey)>>
                             \o _observe_state_wrapper_calls(stream, st, updated, at)
                        ELSE <<>>)
                    \o (IF due THEN _checkpoint_state_calls(stream, st, stream_state, at)
                        ELSE <<>>)
             /\ pc' = IF is_limit_reached(args.limit, counter) THEN "boundary" ELSE "records"
    /\ unit_items' = unit_items + 1
    /\ UNCHANGED <<stream, args, stream_state, has_slices, is_complete, read_calls,
                   reported, api, descriptor, publish_vars, suspended>>

\* Lines 258-262 for a message that is no data record: emitted, and the test
\* of lines 260-262 keeps it from the counter, the observation, the interval
\* checkpoint and the limit.
YieldMessage ==
    /\ pc = "records"
    /\ unit_items < MaxRecords
    /\ LET msg == OtherMessage(CurrentUnit)
           counter == IF IsDataRecord(msg) THEN record_counter + 1 ELSE record_counter
       IN  /\ output' = Append(output, msg)
           /\ yielded' = Append(yielded, Pulled(msg, Len(output)))
           /\ record_counter' = counter
           /\ pc' = IF IsDataRecord(msg) /\ is_limit_reached(args.limit, counter)
                    THEN "boundary" ELSE "records"
    /\ unit_items' = unit_items + 1
    /\ UNCHANGED <<stream, args, self_state, stream_state, checkpoint_reader, has_slices,
                   is_complete, manager_state, read_calls, reported, api,
                   calls, descriptor, publish_vars, suspended>>

\* The generator of read_records() is exhausted; a stream with a state
\* property leaves the state it wants to resume from.
RecordsExhausted ==
    /\ pc = "records"
    /\ \E st \in (IF stream.has_state /\ ~stream.overrides_get_updated_state
                  THEN StatesOf(stream) ELSE {self_state}) :
         self_state' = st
    /\ pc' = "boundary"
    /\ UNCHANGED <<stream, args, stream_state, checkpoint_reader, has_slices,
                   record_counter, is_complete, unit_items, output, manager_state,
                   read_calls, reported, api, yielded, calls, descriptor, publish_vars, suspended>>

\* While a unit is read a legacy stream starts to offer the state property it
\* did not have before (self.state no longer raises AttributeError).
AccessorAppears ==
    /\ pc = "records"
    /\ ~stream.has_state
    /\ stream.overrides_get_updated_state
    /\ CursorFieldDeclared(stream)
    /\ ~stream.supports_resumable_full_refresh
    /\ stream' = [stream EXCEPT !.has_state = TRUE]
    /\ self_state' = Mapping(CursorKey, 1)
    /\ UNCHANGED <<args, stream_state, checkpoint_reader, has_slices, record_counter,
                   is_complete, pc, unit_items, output, manager_state, read_calls,
                   reported, api, yielded, calls, descriptor, publish_vars, suspended>>

\* The generator of read_records() raises: nothing in read() catches it.
RecordsRaise ==
    /\ pc = "records"
    /\ yielded' = Append(yielded, Pulled(RaisedError(CurrentUnit), Len(output)))
    /\ pc' = OnReadRecordsError
    /\ UNCHANGED <<stream, args, self_state, stream_state, checkpoint_reader, has_slices,
                   record_counter, is_complete, unit_items, output, manager_state,
                   read_calls, reported, api, calls, descriptor, publish_vars, suspended>>

\* Lines 283-288: observe once more, flush the boundary checkpoint, re-check
\* has_next().
Boundary ==
    /\ pc = "boundary"
    /\ LET rdr == _observe_state_wrapper(stream, self_state, checkpoint_reader, None)
           persisted == _new_checkpoint_state(rdr)
       IN  /\ checkpoint_reader' = rdr
           /\ manager_state' = update_state_for_stream(manager_state, stream, persisted)
           /\ output' = EmitBoundary(output, StateMessage("boundary", CurrentUnit, persisted))
           /\ is_complete' = LoopComplete(rdr)
           /\ calls' = calls
                  \o _observe_state_wrapper_calls(stream, self_state, None, Len(output))
                  \o _new_checkpoint_state_calls(stream, rdr, Len(output))
    /\ reported' = Append(reported, self_state)
    /\ pc' = "loop"
    /\ UNCHANGED <<stream, args, self_state, stream_state, has_slices, record_counter,
                   unit_items, read_calls, api, yielded, descriptor, publish_vars, suspended>>

\* Lines 290-299: the final checkpoint.
PostLoop ==
    /\ pc = "post"
    /\ LET st == IF args.sync_mode = full_refresh /\ ~Truthy(stream_state)
                 THEN SentinelState ELSE stream_state
           due == FinalCheckpointDue(has_slices, args.sync_mode)
           persisted == _checkpoint_state(stream, self_state, st)
       IN  /\ stream_state' = IF due THEN st ELSE stream_state
           /\ manager_state' = IF due
                               THEN update_state_for_stream(manager_state, stream, persisted)
                               ELSE manager_state
           /\ output' = IF due THEN Append(output, StateMessage("final", 0, persisted)) ELSE output
           /\ calls' = IF due
                       THEN calls \o _checkpoint_state_calls(stream, self_state, st, Len(output))
                       ELSE calls
    /\ pc' = "done"
    /\ UNCHANGED <<stream, args, self_state, checkpoint_reader, has_slices, record_counter,
                   is_complete, unit_items, read_calls, reported, api, yielded, descriptor, publish_vars, suspended>>

Next ==
    \/ StrategySelect
    \/ LoopHead
    \/ YieldRecord
    \/ YieldMessage
    \/ RecordsExhausted
    \/ AccessorAppears
    \/ RecordsRaise
    \/ Boundary
    \/ PostLoop

Spec == Init /\ [][Next]_vars

\* ------------------------------------------------ two interleaved read()s
\* SpecPair: two streams of one source are read by two read() generators whose
\* steps interleave. A generator's locals and its stream's attributes make up
\* its frame; the source's state manager is the one object both reach. The
\* steps of the running generator are those of Spec; Switch suspends it and
\* resumes the other.
ActiveFrame ==
    [ stream |-> stream, args |-> args, self_state |-> self_state,
      stream_state |-> stream_state, checkpoint_reader |-> checkpoint_reader,
      has_slices |-> has_slices, record_counter |-> record_counter,
      is_complete |-> is_complete, pc |-> pc, unit_items |-> unit_items,
      output |-> output, read_calls |-> read_calls, reported |-> reported,
      yielded |-> yielded, calls |-> calls ]

\* The frame of read(s, a) before its first step, as Init sets it.
StartFrame(s, a) ==
    [ stream |-> s, args |-> a,
      self_state |-> IF s.has_state THEN a.stream_state ELSE None,
      stream_state |-> a.stream_state,
      checkpoint_reader |-> IncrementalCheckpointReader(<<>>),
      has_slices |-> FALSE, record_counter |-> 0, is_complete |-> FALSE,
      pc |-> "start", unit_items |-> 0, output |-> <<>>, read_calls |-> <<>>,
      reported |-> <<>>, yielded |-> <<>>, calls |-> <<>> ]

FrameEnded(f) == f.pc \in {"done", "raised"}

\* The first stream is a legacy cursor stream read incrementally with a
\* checkpoint after every record; the second is a legacy cursor stream or a
\* pagination stream with a state property. Both are read under a record
\* limit of one.
FirstStreams ==
    {s \in Streams : /\ s.overrides_get_updated_state
                     /\ s.cursor_field # NoCursorField
                     /\ ~s.supports_resumable_full_refresh
                     /\ s.state_checkpoint_interval = 1
                     /\ Len(s.slices) = 1}
SecondStreams ==
    {[s EXCEPT !.name = OtherStreamKey.name, !.namespace = OtherStreamKey.namespace] :
        s \in FirstStreams
              \cup {r \in Streams : /\ r.supports_resumable_full_refresh
                                    /\ r.has_state
                                    /\ r.cursor_field = NoCursorField
                                    /\ r.state_checkpoint_interval = 0}}
FirstArgs(s) == {a \in Args(s) : a.sync_mode = incremental /\ a.limit = 1 /\ ~a.log_slices}
SecondArgs(s) ==
    {a \in Args(s) : /\ a.sync_mode = (IF s.supports_resumable_full_refresh
                                       THEN full_refresh ELSE incremental)
                     /\ a.limit = 1 /\ ~a.log_slices}

InitPair ==
    /\ stream \in FirstStreams
    /\ args \in FirstArgs(stream)
    /\ self_state = IF stream.has_state THEN args.stream_state ELSE None
    /\ stream_state = args.stream_state
    /\ checkpoint_reader = IncrementalCheckpointReader(<<>>)
    /\ has_slices = FALSE
    /\ record_counter = 0
    /\ is_complete = FALSE
    /\ pc = "start"
    /\ unit_items = 0
    /\ output = <<>>
    /\ manager_state = NoStateSaved
    /\ read_calls = <<>>
    /\ reported = <<>>
    /\ api = [op |-> "none"]
    /\ yielded = <<>>
    /\ calls = <<>>
    /\ descriptor = NotDeclared
    /\ PublishIdle
    /\ \E s \in SecondStreams : \E a \in SecondArgs(s) : suspended = StartFrame(s, a)

\* The running generator is suspended and the other one resumed; the state
\* manager is not part of a frame.
Switch ==
    /\ ~FrameEnded(suspended)
    /\ suspended' = ActiveFrame
    /\ stream' = suspended.stream
    /\ args' = suspended.args
    /\ self_state' = suspended.self_state
    /\ stream_state' = suspended.stream_state
    /\ checkpoint_reader' = suspended.checkpoint_reader
    /\ has_slices' = suspended.has_slices
    /\ record_counter' = suspended.record_counter
    /\ is_complete' = suspended.is_complete
    /\ pc' = suspended.pc
    /\ unit_items' = suspended.unit_items
    /\ output' = suspended.output
    /\ read_calls' = suspended.read_calls
    /\ reported' = suspended.reported
    /\ yielded' = suspended.yielded
    /\ calls' = suspended.calls
    /\ UNCHANGED <<manager_state, api, descriptor, publish_vars>>

NextPair ==
    \/ Next
    \/ Switch

SpecPair == InitPair /\ [][NextPair]_vars

\* ------------------------------------------------- the reader's interface
\* SpecReader: any sequence of observe(), next(), has_next() and read_state()
\* calls on a freshly constructed reader of either class. api records the last
\* call: its argument, what it returned and the stored state before it.
ObservableStates == {None} \cup CursorStates \cup PageStates

Call(op, arg, ret_bool, ret, raised, before) ==
    [op |-> op, arg |-> arg, ret_bool |-> ret_bool, ret |-> ret, raised |-> raised,
     before |-> before]

\* The history of the calls: how many next() calls were made, whether observe()
\* was ever called and the state it was last given.
MaxNextCalls == 3   \* next() calls counted in the history
History(nexts, observed, last_observed) ==
    [nexts |-> nexts, observed |-> observed, last_observed |-> last_observed]

NoUnit == StateUnit(None)

InitReader ==
    /\ stream \in {s \in Streams : s.state_checkpoint_interval = 0 /\ ~s.has_state
                                   /\ ~s.overrides_get_updated_state
                                   /\ s.cursor_field = NoCursorField}
    /\ args = [sync_mode |-> full_refresh, stream_state |-> EmptyMapping, limit |-> 0,
               log_slices |-> FALSE]
    /\ self_state = None
    /\ stream_state = EmptyMapping
    /\ checkpoint_reader = IF stream.supports_resumable_full_refresh
                           THEN ResumableFullRefreshCheckpointReader
                           ELSE IncrementalCheckpointReader(stream.slices)
    /\ has_slices = FALSE
    /\ record_counter = 0
    /\ is_complete = FALSE
    /\ pc = "api"
    /\ unit_items = 0
    /\ output = <<>>
    /\ manager_state = NoStateSaved
    /\ read_calls = <<>>
    /\ reported = <<>>
    /\ api = [call |-> Call("none", None, FALSE, NoUnit, FALSE, None),
              hist |-> History(0, FALSE, None)]
    /\ yielded = <<>>
    /\ calls = <<>>
    /\ descriptor = NotDeclared
    /\ PublishIdle
    /\ suspended = NoFrame

ReaderFrame == UNCHANGED <<stream, args, self_state, stream_state, has_slices,
                           record_counter, is_complete, pc, unit_items, output,
                           manager_state, read_calls, reported, yielded, calls,
                           descriptor, publish_vars, suspended>>

CallObserve ==
    /\ pc = "api"
    /\ \E s \in ObservableStates :
         /\ checkpoint_reader' = ReaderObserve(checkpoint_reader, s)
         /\ api' = [call |-> Call("observe", s, FALSE, NoUnit, FALSE, checkpoint_reader._state),
                     hist |-> History(api.hist.nexts, TRUE, s)]
    /\ ReaderFrame

CallNext ==
    /\ pc = "api"
    /\ api.hist.nexts < MaxNextCalls
    /\ LET n == ReaderNext(checkpoint_reader)
       IN  api' = [call |-> Call("next", None, FALSE, n.value, n.raised, checkpoint_reader._state),
                   hist |-> [api.hist EXCEPT !.nexts = @ + 1]]
    /\ UNCHANGED checkpoint_reader
    /\ ReaderFrame

CallHasNext ==
    /\ pc = "api"
    /\ api' = [call |-> Call("has_next", None, ReaderHasNext(checkpoint_reader), NoUnit, FALSE,
                             checkpoint_reader._state),
                hist |-> api.hist]
    /\ UNCHANGED checkpoint_reader
    /\ ReaderFrame

CallReadState ==
    /\ pc = "api"
    /\ api' = [call |-> Call("read_state", None, FALSE,
                             StateUnit(ReaderReadState(checkpoint_reader)), FALSE,
                             checkpoint_reader._state),
                hist |-> api.hist]
    /\ UNCHANGED checkpoint_reader
    /\ ReaderFrame

NextReader ==
    \/ CallObserve
    \/ CallNext
    \/ CallHasNext
    \/ CallReadState

SpecReader == InitReader /\ [][NextReader]_vars

\* --------------------------------------------------- as_airbyte_stream()
\* SpecDescriptor: a stream with a declared primary key is materialized once.
InitDescriptor ==
    /\ stream \in {s \in Streams : s.state_checkpoint_interval = 0 /\ ~s.has_state
                                   /\ ~s.overrides_get_updated_state /\ s.slices = <<>>}
    /\ args = [sync_mode |-> full_refresh, stream_state |-> EmptyMapping, limit |-> 0,
               log_slices |-> FALSE]
    /\ self_state = None
    /\ stream_state = EmptyMapping
    /\ checkpoint_reader = IncrementalCheckpointReader(<<>>)
    /\ has_slices = FALSE
    /\ record_counter = 0
    /\ is_complete = FALSE
    /\ pc = "declared"
    /\ unit_items = 0
    /\ output = <<>>
    /\ manager_state = NoStateSaved
    /\ read_calls = <<>>
    /\ reported = <<>>
    /\ api = [op |-> "none"]
    /\ yielded = <<>>
    /\ calls = <<>>
    /\ \E k \in PrimaryKeys : descriptor = Descriptor(k, FALSE, FALSE, <<>>, None)
    /\ PublishIdle
    /\ suspended = NoFrame

\* Lines 324-340: the sync modes, then the wrapped primary key.
as_airbyte_stream ==
    /\ pc = "declared"
    /\ LET modes == IF ~stream.supports_resumable_full_refresh /\ supports_incremental(stream)
                    THEN <<full_refresh, incremental>> ELSE <<full_refresh>>
           keys == _wrapped_primary_key(descriptor.primary_key)
       IN  descriptor' =
             IF keys.raised
             THEN Descriptor(descriptor.primary_key, FALSE, TRUE, <<>>, None)
             ELSE Descriptor(descriptor.primary_key, TRUE, FALSE, modes,
                             IF keys.value # None /\ Len(keys.value[1]) > 0
                             THEN keys.value ELSE None)
    /\ pc' = "materialized"
    /\ UNCHANGED <<stream, args, self_state, stream_state, checkpoint_reader, has_slices,
                   record_counter, is_complete, unit_items, output, manager_state,
                   read_calls, reported, api, yielded, calls, publish_vars, suspended>>

NextDescriptor == as_airbyte_stream

SpecDescriptor == InitDescriptor /\ [][NextDescriptor]_vars

\* --------------------------------------------- run_connector_publish_pipeline
\* SpecPublish: one run of the publish pipeline for one connector. Every step
\* is one action; the status a step ends with is the environment's choice among
\* the statuses its _run() can return (any StepStatus for a step whose code is
\* elsewhere).
Languages == {"python", "low-code", "java"}

\* The steps the pipeline ran are logged in calls, in order.
Ran(step) == Called("run", Len(results), step, NoKey)

\* Mutant: only a FAILURE ends the pipeline.
ExitsEarlyOnFailureOnly(status) == status = FAILURE

\* if <step>_results.status is not StepStatus.SUCCESS: return create_connector_report(results)
ExitsEarly(status) == status # SUCCESS

\* CheckConnectorImageDoesNotExist._run: what crane ls answered decides the status.
CraneLsOutcomes == {"NAME_UNKNOWN", "ExecError", "tag_listed", "tag_not_listed"}
CheckConnectorImageDoesNotExist_run(outcome) ==
    CASE outcome = "NAME_UNKNOWN" -> SUCCESS
      [] outcome = "ExecError" -> FAILURE
      [] outcome = "tag_listed" -> SKIPPED
      [] OTHER -> SUCCESS

\* UploadSpecToCache._run: an invalid spec output or a failed upload is a FAILURE.
UploadSpecOutcomes == {"InvalidSpecOutputError", "exit_code_nonzero", "uploaded"}
UploadSpecToCache_run(outcome) == IF outcome = "uploaded" THEN SUCCESS ELSE FAILURE

\* UploadSbom._run: a failed syft run or a failed upload is a FAILURE.
UploadSbomOutcomes == {"ExecError", "exit_code_nonzero", "uploaded"}
UploadSbom_run(outcome) == IF outcome = "uploaded" THEN SUCCESS ELSE FAILURE

\* UploadDependenciesToMetadataService._run
UploadDependenciesOutcomes == {"exit_code_nonzero", "uploaded"}
UploadDependenciesToMetadataService_run(outcome) ==
    IF outcome = "uploaded" THEN SUCCESS ELSE FAILURE

\* _run_python_registry_publish_pipeline: the results it returns, the steps it
\* ran, and terminate_early, for the statuses its two steps end with.
_run_python_registry_publish_pipeline(ctx, check_status, publish_status) ==
    IF ~ctx.python_registry_context
    THEN [results |-> <<>>, ran |-> <<>>, terminate_early |-> FALSE]
    ELSE IF ~ctx.python_registry_credentials
    THEN [results |-> <<StepResult("PublishToPythonRegistry", FAILURE)>>,
          ran |-> <<>>, terminate_early |-> TRUE]
    ELSE LET check == StepResult("CheckPythonRegistryPackageDoesNotExist", check_status)
             publish == StepResult("PublishToPythonRegistry", publish_status)
         IN  CASE check_status = SKIPPED ->
                    [results |-> <<check>>, ran |-> <<check.step>>, terminate_early |-> FALSE]
               [] check_status = SUCCESS ->
                    [results |-> <<check, publish>>, ran |-> <<check.step, publish.step>>,
                     terminate_early |-> publish_status = FAILURE]
               [] OTHER ->
                    [results |-> <<check>>, ran |-> <<check.step>>, terminate_early |-> TRUE]

InitPublish ==
    /\ stream \in {s \in Streams : s.state_checkpoint_interval = 0 /\ ~s.has_state
                                   /\ ~s.overrides_get_updated_state /\ s.slices = <<>>
                                   /\ ~s.supports_resumable_full_refresh
                                   /\ s.cursor_field = NoCursorField}
    /\ args = [sync_mode |-> full_refresh, stream_state |-> EmptyMapping, limit |-> 0,
               log_slices |-> FALSE]
    /\ self_state = None
    /\ stream_state = EmptyMapping
    /\ checkpoint_reader = IncrementalCheckpointReader(<<>>)
    /\ has_slices = FALSE
    /\ record_counter = 0
    /\ is_complete = FALSE
    /\ pc = "MetadataValidation"
    /\ unit_items = 0
    /\ output = <<>>
    /\ manager_state = NoStateSaved
    /\ read_calls = <<>>
    /\ reported = <<>>
    /\ api = [op |-> "none"]
    /\ yielded = <<>>
    /\ calls = <<>>
    /\ descriptor = NotDeclared
    /\ \E language \in Languages, python_registry_context, credentials \in BOOLEAN :
         context = PublishConnectorContext(language, python_registry_context, credentials,
                                           FALSE, FALSE)
    /\ results = <<>>
    /\ attempts = 0
    /\ registry = <<>>
    /\ suspended = NoFrame

PublishFrame == UNCHANGED <<stream, args, self_state, stream_state, checkpoint_reader,
                            has_slices, record_counter, is_complete, unit_items, output,
                            manager_state, read_calls, reported, api, yielded, descriptor,
                            attempts, registry, suspended>>

\* A step was run and its result appended; the pipeline then returns the report
\* of the results collected (create_connector_report) or goes on to next_step.
StepDone(step, status, exits, next_step) ==
    /\ results' = Append(results, StepResult(step, status))
    /\ calls' = Append(calls, Ran(step))
    /\ IF exits
       THEN /\ context' = [context EXCEPT !.report = ConnectorReport(results')]
            /\ pc' = "returned"
       ELSE /\ context' = context
            /\ pc' = next_step
    /\ PublishFrame

\* Lines 393-398.
MetadataValidation ==
    /\ pc = "MetadataValidation"
    /\ \E status \in StepStatus :
         StepDone("MetadataValidation", status, ExitsEarly(status),
                  "CheckConnectorImageDoesNotExist")

\* Lines 400-401.
CheckConnectorImageDoesNotExist ==
    /\ pc = "CheckConnectorImageDoesNotExist"
    /\ \E outcome \in CraneLsOutcomes :
         StepDone("CheckConnectorImageDoesNotExist",
                  CheckConnectorImageDoesNotExist_run(outcome), FALSE,
                  "_run_python_registry_publish_pipeline")

\* Mutant: the upload path is taken for every image check that is not SUCCESS.
ImageAlreadyPublishedOrCheckFailed(status) == status # SUCCESS

\* if check_connector_image_results.status is StepStatus.SKIPPED
ImageAlreadyPublished(status) == status = SKIPPED

\* The status of the image check, once it has run.
check_connector_image_results ==
    (CHOOSE r \in {results[i] : i \in 1..Len(results)} :
        r.step = "CheckConnectorImageDoesNotExist").status

\* Lines 402-429: the python registry sub-pipeline, then the branch on the
\* image check: the upload path for an image that exists, the end for a check
\* that failed, the build path otherwise.
PythonRegistryPublish ==
    /\ pc = "_run_python_registry_publish_pipeline"
    /\ \E check_status, publish_status \in StepStatus :
         LET sub == _run_python_registry_publish_pipeline(context, check_status,
                                                          publish_status)
             image == check_connector_image_results
             exits == sub.terminate_early
                      \/ (~ImageAlreadyPublished(image) /\ ExitsEarly(image))
         IN  /\ results' = results \o sub.results
             /\ calls' = calls \o [i \in 1..Len(sub.ran) |->
                                      Called("run", Len(results) + i - 1, sub.ran[i], NoKey)]
             /\ IF exits
                THEN /\ context' = [context EXCEPT !.report = ConnectorReport(results')]
                     /\ pc' = "returned"
                ELSE /\ context' = context
                     /\ pc' = IF ImageAlreadyPublished(image) THEN "UploadSpecToCache"
                              ELSE "run_connector_build"
    /\ PublishFrame

\* Lines 431-436.
run_connector_build ==
    /\ pc = "run_connector_build"
    /\ \E status \in StepStatus :
         StepDone("run_connector_build", status, ExitsEarly(status),
                  IF context.language \in {"python", "low-code"}
                  THEN "UploadDependenciesToMetadataService"
                  ELSE "PushConnectorImageToRegistry")

\* Lines 438-440: the result is appended and not looked at.
UploadDependenciesToMetadataService ==
    /\ pc = "UploadDependenciesToMetadataService"
    /\ \E outcome \in UploadDependenciesOutcomes :
         StepDone("UploadDependenciesToMetadataService",
                  UploadDependenciesToMetadataService_run(outcome), FALSE,
                  "PushConnectorImageToRegistry")

\* Lines 442-448: _run returns SUCCESS or FAILURE.
PushConnectorImageToRegistry ==
    /\ pc = "PushConnectorImageToRegistry"
    /\ \E status \in {SUCCESS, FAILURE} :
         StepDone("PushConnectorImageToRegistry", status, ExitsEarly(status),
                  "PullConnectorImageFromRegistry")

\* Lines 452-457: _run returns SUCCESS or FAILURE.
PullConnectorImageFromRegistry ==
    /\ pc = "PullConnectorImageFromRegistry"
    /\ \E status \in {SUCCESS, FAILURE} :
         StepDone("PullConnectorImageFromRegistry", status, ExitsEarly(status),
                  "UploadSpecToCache")

\* Lines 414-417 (the image exists) and 459-462 (the image was built).
UploadSpecToCache ==
    /\ pc = "UploadSpecToCache"
    /\ \E outcome \in UploadSpecOutcomes :
         LET status == UploadSpecToCache_run(outcome)
         IN  StepDone("UploadSpecToCache", status, ExitsEarly(status), "UploadSbom")

\* Lines 419-422 and 464-467.
UploadSbom ==
    /\ pc = "UploadSbom"
    /\ \E outcome \in UploadSbomOutcomes :
         LET status == UploadSbom_run(outcome)
         IN  StepDone("UploadSbom", status, ExitsEarly(status), "MetadataUpload")

\* Lines 424-429 and 469-472: the report is created whatever the status is.
MetadataUpload ==
    /\ pc = "MetadataUpload"
    /\ \E status \in StepStatus :
         StepDone("MetadataUpload", status, TRUE, "returned")

NextPublish ==
    \/ MetadataValidation
    \/ CheckConnectorImageDoesNotExist
    \/ PythonRegistryPublish
    \/ run_connector_build
    \/ UploadDependenciesToMetadataService
    \/ PushConnectorImageToRegistry
    \/ PullConnectorImageFromRegistry
    \/ UploadSpecToCache
    \/ UploadSbom
    \/ MetadataUpload

SpecPublish == InitPublish /\ [][NextPublish]_vars

\* ------------------------------------- the registry steps' _run() and retries
\* SpecRetry: one call of PushConnectorImageToRegistry._run or of
\* PullConnectorImageFromRegistry._run. An action is one frame of _run(): the
\* registry's answer is the environment's choice, and a retry is the recursive
\* call with the attempts argument lowered by one. registry logs the frames.
Attempt(step, attempts_left, outcome, published) ==
    [step |-> step, attempts |-> attempts_left, outcome |-> outcome, published |-> published]

\* Mutant: the latest tag is withheld from pre-releases only.
should_push_latest_tag_unless_pre_release(ctx) == ~ctx.pre_release

\* return not is_release_candidate and not is_pre_release
should_push_latest_tag(ctx) == ~ctx.is_release_candidate /\ ~ctx.pre_release

\* Mutant: a retry is made with no attempt left as well.
MayRetryAtZero(attempts_left) == attempts_left >= 0

\* if attempts > 0 (push), if attempt > 0 (pull, in both handlers)
MayRetry(attempts_left) == attempts_left > 0

\* What publishing answers: both publish() calls return, the first raises
\* QueryError, or the first returns and the one for the latest tag raises.
PushOutcomes(ctx) ==
    {"published", "QueryError"}
    \cup (IF should_push_latest_tag(ctx) THEN {"QueryError on latest"} ELSE {})

\* The tags a frame of the push step published before it returned or raised.
PublishedBy(ctx, outcome) ==
    CASE outcome = "QueryError" -> <<>>
      [] outcome = "QueryError on latest" -> <<"docker_image">>
      [] OTHER -> IF should_push_latest_tag(ctx)
                  THEN <<"docker_image", "latest">> ELSE <<"docker_image">>

\* What pulling answers: the spec command fails (ExecError), the engine fails
\* (QueryError), the image is pulled and has gzip layers only or not, or the
\* manifest cannot be inspected (check_if_image_only_has_gzip_layers raises).
PullOutcomes == {"ExecError", "QueryError", "gzip", "not gzip", "Exception"}

InitRetry ==
    /\ stream \in {s \in Streams : s.state_checkpoint_interval = 0 /\ ~s.has_state
                                   /\ ~s.overrides_get_updated_state /\ s.slices = <<>>
                                   /\ ~s.supports_resumable_full_refresh
                                   /\ s.cursor_field = NoCursorField}
    /\ args = [sync_mode |-> full_refresh, stream_state |-> EmptyMapping, limit |-> 0,
               log_slices |-> FALSE]
    /\ self_state = None
    /\ stream_state = EmptyMapping
    /\ checkpoint_reader = IncrementalCheckpointReader(<<>>)
    /\ has_slices = FALSE
    /\ record_counter = 0
    /\ is_complete = FALSE
    /\ unit_items = 0
    /\ output = <<>>
    /\ manager_state = NoStateSaved
    /\ read_calls = <<>>
    /\ reported = <<>>
    /\ api = [op |-> "none"]
    /\ yielded = <<>>
    /\ calls = <<>>
    /\ descriptor = NotDeclared
    /\ \E is_release_candidate, pre_release \in BOOLEAN :
         context = PublishConnectorContext("python", FALSE, FALSE, is_release_candidate,
                                           pre_release)
    /\ \/ pc = "PushConnectorImageToRegistry._run" /\ attempts = attempts_default
       \/ pc = "PullConnectorImageFromRegistry._run" /\ attempts = attempt_default
    /\ results = <<>>
    /\ registry = <<>>
    /\ suspended = NoFrame

RetryFrame == UNCHANGED <<stream, args, self_state, stream_state, checkpoint_reader,
                          has_slices, record_counter, is_complete, unit_items, output,
                          manager_state, read_calls, reported, api, yielded, calls,
                          descriptor, context, suspended>>

\* The handler of a registry error: the recursive call while an attempt is
\* left, the FAILURE result otherwise.
RetryOrFail(step) ==
    IF MayRetry(attempts)
    THEN /\ attempts' = attempts - 1
         /\ UNCHANGED <<pc, results>>
    ELSE /\ results' = <<StepResult(step, FAILURE)>>
         /\ pc' = "returned"
         /\ attempts' = attempts

Return(step, status) ==
    /\ results' = <<StepResult(step, status)>>
    /\ pc' = "returned"
    /\ attempts' = attempts

\* Lines 155-175.
PushConnectorImageToRegistry_run ==
    /\ pc = "PushConnectorImageToRegistry._run"
    /\ \E outcome \in PushOutcomes(context) :
         /\ registry' = Append(registry, Attempt("PushConnectorImageToRegistry", attempts,
                                                 outcome, PublishedBy(context, outcome)))
         /\ IF outcome = "published"
            THEN Return("PushConnectorImageToRegistry", SUCCESS)
            ELSE RetryOrFail("PushConnectorImageToRegistry")
    /\ RetryFrame

\* Lines 207-233: ExecError and QueryError are handled alike, with the one
\* attempt argument; the Exception of the layer check is caught by nothing.
PullConnectorImageFromRegistry_run ==
    /\ pc = "PullConnectorImageFromRegistry._run"
    /\ \E outcome \in PullOutcomes :
         /\ registry' = Append(registry, Attempt("PullConnectorImageFromRegistry", attempts,
                                                 outcome, <<>>))
         /\ CASE outcome \in {"ExecError", "QueryError"} ->
                    RetryOrFail("PullConnectorImageFromRegistry")
              [] outcome = "gzip" -> Return("PullConnectorImageFromRegistry", SUCCESS)
              [] outcome = "not gzip" -> Return("PullConnectorImageFromRegistry", FAILURE)
              [] OTHER -> /\ pc' = "raised"
                          /\ UNCHANGED <<results, attempts>>
    /\ RetryFrame

NextRetry ==
    \/ PushConnectorImageToRegistry_run
    \/ PullConnectorImageFromRegistry_run

\* A frame of _run() that can take its step takes it: the awaited calls and
\* the sleeps return.
SpecRetry == InitRetry /\ [][NextRetry]_vars /\ WF_vars(NextRetry)

\* ================================================================== claims
\* Helpers over the emitted messages.
IsCheckpoint(m) == m.type = "STATE"
CheckpointsAt(site) == {i \in 1..Len(output) : IsCheckpoint(output[i]) /\ output[i].site = site}
AllCheckpoints == {i \in 1..Len(output) : IsCheckpoint(output[i])}
Finished == pc = "done"

\* A checkpoint is mid-partition when a message of read_records() for the same
\* unit is emitted after it.
MidPartitionCheckpoint ==
    \E i \in 1..Len(output) : \E j \in 1..Len(output) :
        /\ i < j
        /\ IsCheckpoint(output[i])
        /\ output[i].site # "final"
        /\ output[j].site = "records"
        /\ output[j].unit = output[i].unit

\* The within-unit offsets (ordinals of data records) of unit u right after
\* which an interval checkpoint was emitted.
IntervalOffsets(u) ==
    { output[i].idx : i \in { j \in 1..(Len(output) - 1) :
                                /\ output[j].type = "RECORD"
                                /\ output[j].unit = u
                                /\ IsCheckpoint(output[j + 1])
                                /\ output[j + 1].site = "interval" } }

\* C1: for the pagination-based reader, after any sequence of calls, has_next()
\* returns false if and only if the stored state equals the empty mapping; it
\* returns true while the state is still None (not yet observed).
C1_HasNextFalseIffEmpty ==
    (api.call.op = "has_next" /\ checkpoint_reader.kind = "RFR") =>
        /\ (api.call.ret_bool = FALSE) <=> (checkpoint_reader._state = EmptyMapping)
        /\ checkpoint_reader._state = None => api.call.ret_bool = TRUE

C1_Witness ==
    /\ api.call.op = "has_next"
    /\ checkpoint_reader.kind = "RFR"
    /\ checkpoint_reader._state = EmptyMapping
    /\ api.call.ret_bool = FALSE

\* C2: a non-resumable resource with k >= 1 partitions and no checkpoint
\* interval is read with one read_records() call per partition, in partition
\* order, and k boundary checkpoints are emitted, each after its partition's
\* records and before the next partition's.
C2_OneReadAndBoundaryPerPartition ==
    ( /\ Finished
      /\ ~stream.supports_resumable_full_refresh
      /\ Len(stream.slices) >= 1
      /\ stream.state_checkpoint_interval = 0 ) =>
        /\ Len(read_calls) = Len(stream.slices)
        /\ \A u \in 1..Len(read_calls) :
               read_calls[u].stream_slice = SliceUnit(stream.slices[u])
        /\ Cardinality(CheckpointsAt("boundary")) = Len(stream.slices)
        /\ \A u \in 1..Len(stream.slices) :
               \E b \in CheckpointsAt("boundary") :
                   /\ output[b].unit = u
                   /\ \A j \in 1..Len(output) :
                          output[j].site = "records" =>
                              /\ output[j].unit = u => j < b
                              /\ output[j].unit = u + 1 => j > b

\* C3: after the loop a final checkpoint is emitted iff no partition was
\* produced or the sync mode is full_refresh; in incremental mode with at least
\* one partition the last message is the last partition's boundary checkpoint;
\* in full_refresh mode with k partitions exactly k+1 checkpoints are emitted.
C3_FinalCheckpointRule ==
    (Finished /\ ~stream.supports_resumable_full_refresh) =>
        LET k == Len(stream.slices)
        IN  /\ (CheckpointsAt("final") # {}) <=> (k = 0 \/ args.sync_mode = full_refresh)
            /\ Cardinality(CheckpointsAt("final")) <= 1
            /\ (args.sync_mode = incremental /\ k >= 1) =>
                   /\ output # <<>>
                   /\ IsCheckpoint(output[Len(output)])
                   /\ output[Len(output)].site = "boundary"
                   /\ output[Len(output)].unit = k
            /\ args.sync_mode = full_refresh => Cardinality(AllCheckpoints) = k + 1

\* C4: a resumable-full-refresh resource that starts unobserved and reports
\* {"page": 1} after the first read_records() call and {} after the second is
\* read with exactly two read_records() calls.
C4_TwoPagesTwoReads ==
    ( /\ Finished
      /\ stream.supports_resumable_full_refresh
      /\ stream.has_state
      /\ args.stream_state = EmptyMapping
      /\ Len(reported) >= 1
      /\ reported[1] = Mapping(PageKey, 1)
      /\ Len(reported) >= 2 => reported[2] = EmptyMapping ) =>
        Len(read_calls) = 2

\* C5: in a resumable-full-refresh sync the loop keeps reading pages while the
\* resource reports a non-empty state, so it ends only after the resource
\* reported the empty mapping, and read_records() is never called again once
\* the empty mapping was reported.
C5_ReadsUntilEmptyReported ==
    (stream.supports_resumable_full_refresh /\ stream.has_state) =>
        /\ pc \in {"post", "done"} =>
               (reported # <<>> /\ reported[Len(reported)] = EmptyMapping)
        /\ \A i \in 1..Len(reported) :
               reported[i] = EmptyMapping => Len(read_calls) <= i

\* C6 (as claimed): in either sync mode, with state_checkpoint_interval = N > 0,
\* a checkpoint follows every Nth data record of a partition.
C6_IntervalCheckpointInEitherMode ==
    \A i \in 1..Len(output) :
        ( /\ output[i].type = "RECORD"
          /\ stream.state_checkpoint_interval > 0
          /\ output[i].idx % stream.state_checkpoint_interval = 0 ) =>
            /\ i < Len(output)
            /\ IsCheckpoint(output[i + 1])
            /\ output[i + 1].site = "interval"

\* C6 (amended): in incremental mode, with state_checkpoint_interval = N > 0, a
\* checkpoint follows every Nth data record of a partition, and the partition
\* still gets its boundary checkpoint; in full_refresh mode no interval
\* checkpoint is emitted.
C6_IntervalCheckpointInIncrementalMode ==
    /\ \A i \in 1..Len(output) :
           ( /\ output[i].type = "RECORD"
             /\ args.sync_mode = incremental
             /\ stream.state_checkpoint_interval > 0
             /\ output[i].idx % stream.state_checkpoint_interval = 0 ) =>
               /\ i < Len(output)
               /\ IsCheckpoint(output[i + 1])
               /\ output[i + 1].site = "interval"
    /\ args.sync_mode = full_refresh => CheckpointsAt("interval") = {}
    /\ pc \in {"loop", "post", "done"} =>
           \A u \in 1..Len(read_calls) :
               \E b \in CheckpointsAt("boundary") : output[b].unit = u

C6_Witness ==
    /\ Finished
    /\ args.sync_mode = incremental
    /\ stream.state_checkpoint_interval = 2
    /\ DataRecordsOf(output, 1) >= 2
    /\ Cardinality(CheckpointsAt("interval")) = 1
    /\ Cardinality(CheckpointsAt("boundary")) = 1

C8_NoIntervalNoMidPartitionCheckpoint ==
    stream.state_checkpoint_interval = 0 =>
        /\ \A i \in AllCheckpoints : output[i].site \in {"boundary", "final"}
        /\ ~MidPartitionCheckpoint

C8_Witness ==
    /\ Finished
    /\ stream.state_checkpoint_interval = 0
    /\ args.sync_mode = incremental
    /\ DataRecordsOf(output, 1) >= 2
    /\ AllCheckpoints # {}

\* C9 (as claimed): a resource that declares no cursor field does not support
\* incremental, and no sync of it, in either mode and with or without an
\* interval, emits a checkpoint mid-partition.
C9_NoCursorNeverMidPartition ==
    ~CursorFieldDeclared(stream) =>
        /\ ~supports_incremental(stream)
        /\ ~MidPartitionCheckpoint

\* C9 (amended): a resource that declares no cursor field does not support
\* incremental, and a sync of it emits no checkpoint mid-partition unless the
\* sync mode is incremental and a checkpoint interval is configured.
C9_NoCursorMidPartitionOnlyOnInterval ==
    ~CursorFieldDeclared(stream) =>
        /\ ~supports_incremental(stream)
        /\ MidPartitionCheckpoint =>
               (args.sync_mode = incremental /\ stream.state_checkpoint_interval > 0)

C9_Witness ==
    /\ Finished
    /\ ~CursorFieldDeclared(stream)
    /\ stream.state_checkpoint_interval > 0
    /\ args.sync_mode = full_refresh
    /\ DataRecordsOf(output, 1) >= 2
    /\ ~MidPartitionCheckpoint

\* C10: a full_refresh sync with zero partitions and no derivable state emits
\* exactly one checkpoint, carrying the sentinel mapping, and read_records() is
\* never called.
C10_ZeroPartitionsOneSentinelCheckpoint ==
    ( /\ Finished
      /\ ~stream.supports_resumable_full_refresh
      /\ stream.slices = <<>>
      /\ args.sync_mode = full_refresh
      /\ args.stream_state = EmptyMapping
      /\ ~stream.has_state ) =>
        /\ Cardinality(AllCheckpoints) = 1
        /\ \A i \in AllCheckpoints : output[i].state = SentinelState
        /\ read_calls = <<>>

\* The boundary checkpoints of unit u, and whether unit u has been left.
BoundariesOf(u) == {b \in CheckpointsAt("boundary") : output[b].unit = u}
UnitLeft(u) == u < CurrentUnit \/ pc \in {"loop", "post", "done"}

\* C11: in an incremental sync of a resource with the explicit state accessor,
\* the state persisted by each partition-boundary checkpoint equals the value
\* the accessor reports after that partition was read.
C11_BoundaryPersistsAccessorState ==
    ( /\ args.sync_mode = incremental
      /\ stream.has_state
      /\ ~stream.supports_resumable_full_refresh ) =>
        \A b \in CheckpointsAt("boundary") :
            /\ output[b].unit <= Len(reported)
            /\ output[b].state = reported[output[b].unit]

\* C12: every unit pulled gets exactly one boundary checkpoint, after every
\* message consumed from that unit and before any record or slice message of
\* the next unit, also when the unit yields no records.
C12_OneBoundaryPerUnitInOrder ==
    \A u \in 1..Len(read_calls) :
        /\ Cardinality(BoundariesOf(u)) = IF UnitLeft(u) THEN 1 ELSE 0
        /\ \A b \in BoundariesOf(u) : \A j \in 1..Len(output) :
               /\ (output[j].site \in {"records", "interval"} /\ output[j].unit = u) => j < b
               /\ (output[j].site \in {"records", "slice"} /\ output[j].unit > u) => j > b

C12_Witness ==
    /\ Finished
    /\ args.log_slices
    /\ read_calls # <<>>
    /\ \A j \in 1..Len(output) : output[j].site # "records"
    /\ Cardinality(BoundariesOf(1)) = 1

\* C13: an interval checkpoint is emitted immediately after the data record
\* that made the counter a multiple of the interval, and that record's
\* checkpoint is already out in every state in which another item can be
\* requested.
C13_IntervalCheckpointRightAfterTrigger ==
    /\ \A i \in CheckpointsAt("interval") :
           /\ i > 1
           /\ output[i - 1].type = "RECORD"
           /\ output[i - 1].unit = output[i].unit
           /\ stream.state_checkpoint_interval > 0
           /\ output[i - 1].idx % stream.state_checkpoint_interval = 0
    /\ \A i \in 1..Len(output) :
           ( /\ output[i].type = "RECORD"
             /\ IntervalCheckpointDue(args.sync_mode, stream.state_checkpoint_interval,
                                      output[i].idx) ) =>
               (i < Len(output) /\ output[i + 1].site = "interval")

C13_Witness ==
    /\ stream.state_checkpoint_interval = 1
    /\ Len(output) >= 4
    /\ \E i \in 1..(Len(output) - 3) :
           /\ output[i].type = "RECORD"
           /\ output[i + 1].site = "interval"
           /\ output[i + 2].type = "RECORD"
           /\ output[i + 3].site = "interval"

\* C14: when the record limit is reached inside a unit, no further record of
\* that unit is consumed, the unit's boundary checkpoint is still emitted, and
\* the resource is not treated as exhausted: the remaining units are still
\* pulled and read.
C14_LimitEndsUnitNotSync ==
    ( /\ args.limit > 0
      /\ record_counter >= args.limit
      /\ ~stream.supports_resumable_full_refresh ) =>
        /\ \A u \in 1..Len(read_calls) : DataRecordsOf(output, u) <= args.limit
        /\ \A u \in 1..Len(read_calls) : UnitLeft(u) => BoundariesOf(u) # {}
        /\ Finished => Len(read_calls) >= Len(stream.slices)

\* C15: after a unit's boundary checkpoint the loop is left only if has_next()
\* is false (or the reader signals exhaustion); if has_next() is true the next
\* unit is pulled.
C15_LoopLeftOnlyWhenNoNext ==
    (pc \in {"post", "done"} /\ read_calls # <<>>) =>
        \/ ~ReaderHasNext(checkpoint_reader)
        \/ ReaderNext(checkpoint_reader).raised

\* C16: for the cursor-based reader over p1..pk, the i-th call of next()
\* returns pi and the (k+1)-th call signals exhaustion.
C16_NextReturnsPartitionsInOrder ==
    (api.call.op = "next" /\ checkpoint_reader.kind = "Incremental") =>
        LET i == api.hist.nexts
            slices == checkpoint_reader._stream_slices
        IN  IF i <= Len(slices)
            THEN ~api.call.raised /\ api.call.ret = SliceUnit(slices[i])
            ELSE api.call.raised

\* C17: the cursor-based reader's has_next() returns true in every reachable
\* state, whatever was observed and however often next() was called.
C17_IncrementalHasNextAlwaysTrue ==
    (api.call.op = "has_next" /\ checkpoint_reader.kind = "Incremental") =>
        api.call.ret_bool = TRUE

C17_Witness ==
    /\ api.call.op = "has_next"
    /\ checkpoint_reader.kind = "Incremental"
    /\ api.hist.observed
    /\ api.hist.nexts > Len(checkpoint_reader._stream_slices)
    /\ api.call.ret_bool = TRUE

\* C18: a freshly constructed reader of either class is not yet observed:
\* read_state() returns None, which is not the empty mapping, and the
\* pagination reader's has_next() is true.
C18_FreshReaderNotObserved ==
    ~api.hist.observed =>
        /\ checkpoint_reader._state = None
        /\ checkpoint_reader._state # EmptyMapping
        /\ api.call.op = "read_state" => api.call.ret = StateUnit(None)
        /\ (api.call.op = "has_next" /\ checkpoint_reader.kind = "RFR") => api.call.ret_bool

C18_Witness ==
    /\ ~api.hist.observed
    /\ api.call.op = "read_state"
    /\ checkpoint_reader.kind = "RFR"
    /\ api.call.ret = StateUnit(None)

\* C19: observe(s) overwrites the stored state, read_state() returns the most
\* recently observed state, next(), has_next() and read_state() leave the
\* stored state unchanged, and what the cursor-based next() returns does not
\* depend on what was observed.
C19_ObserveOverwritesOthersKeep ==
    /\ api.call.op = "observe" => checkpoint_reader._state = api.call.arg
    /\ api.call.op \in {"next", "has_next", "read_state"} =>
           checkpoint_reader._state = api.call.before
    /\ checkpoint_reader._state = api.hist.last_observed
    /\ api.call.op = "read_state" => api.call.ret = StateUnit(api.hist.last_observed)
    /\ (api.call.op = "next" /\ checkpoint_reader.kind = "Incremental") =>
           api.call.ret =
               IncrementalNext(IncrementalCheckpointReader(checkpoint_reader._stream_slices)).value

C19_Witness ==
    /\ api.call.op = "read_state"
    /\ checkpoint_reader.kind = "Incremental"
    /\ api.hist.observed
    /\ api.hist.nexts >= 1
    /\ api.call.before = Mapping(CursorKey, 2)
    /\ api.call.ret = StateUnit(Mapping(CursorKey, 2))

\* C20: in a resumable-full-refresh sync the stream_slice of each
\* read_records() call is the reader's stored state: for the first call the
\* state the resource reported at the start of read() (None if it reported
\* nothing), for a later call the state of the previous boundary checkpoint.
C20_SliceIsReaderState ==
    stream.supports_resumable_full_refresh =>
        \A u \in 1..Len(read_calls) :
            read_calls[u].stream_slice =
                StateUnit(IF u = 1
                          THEN IF calls[1].op = "state" /\ Truthy(calls[1].arg)
                               THEN args.stream_state ELSE None
                          ELSE output[CHOOSE b \in BoundariesOf(u - 1) : TRUE].state)

C20_Witness ==
    /\ stream.supports_resumable_full_refresh
    /\ stream.has_state
    /\ args.stream_state = Mapping(PageKey, 1)
    /\ read_calls # <<>>
    /\ read_calls[1].stream_slice = StateUnit(Mapping(PageKey, 1))

\* The positions in calls of the calls of one operation.
CallsOf(op) == {i \in 1..Len(calls) : calls[i].op = op}

\* C21: the checkpoint strategy is chosen once at the start of read() and
\* never switched: a resumable-full-refresh resource is read through the
\* pagination reader, stream_slices() is never called for it and no state
\* derived by get_updated_state() reaches its reader; any other resource is
\* read through the cursor reader over the result of its one stream_slices()
\* call.
C21_StrategyChosenOnceNeverSwitched ==
    pc # "start" =>
        /\ stream.supports_resumable_full_refresh =>
               /\ checkpoint_reader.kind = "RFR"
               /\ CallsOf("stream_slices") = {}
               /\ CallsOf("get_updated_state") = {}
               /\ \A i \in CallsOf("observe") :
                      stream.has_state /\ calls[i].arg \in PageStates
               /\ \A u \in 1..Len(read_calls) : read_calls[u].stream_slice.tag = "state"
        /\ ~stream.supports_resumable_full_refresh =>
               /\ checkpoint_reader.kind = "Incremental"
               /\ checkpoint_reader._stream_slices = stream.slices
               /\ CallsOf("stream_slices") = {1}
               /\ \A u \in 1..Len(read_calls) : read_calls[u].stream_slice.tag # "state"

C21_Witness ==
    /\ Finished
    /\ stream.supports_resumable_full_refresh
    /\ CursorFieldDeclared(stream)
    /\ stream.overrides_get_updated_state
    /\ DataRecordsOf(output, 1) >= 2
    /\ checkpoint_reader.kind = "RFR"

\* The positions in yielded at which a read_records() generator raised.
Failures == {i \in 1..Len(yielded) : yielded[i].item.type = "ERROR"}

\* C22: when the partition reader fails while a unit is read, read() ends
\* with that failure: nothing is pulled or emitted after it, no further
\* read_records() call is made, the state manager is not called again and the
\* unit gets no boundary checkpoint and the sync no final one; what was
\* emitted before stays emitted.
C22_ReaderFailurePropagates ==
    \A i \in Failures :
        /\ pc = "raised"
        /\ i = Len(yielded)
        /\ Len(output) = yielded[i].at
        /\ Len(read_calls) = yielded[i].item.unit
        /\ BoundariesOf(yielded[i].item.unit) = {}
        /\ CheckpointsAt("final") = {}
        /\ \A j \in 1..Len(calls) : calls[j].at <= yielded[i].at
        /\ \A j \in CallsOf("update_state_for_stream") : calls[j].at < yielded[i].at

C22_Witness ==
    /\ pc = "raised"
    /\ Failures # {}
    /\ DataRecordsOf(output, 1) >= 1
    /\ CheckpointsAt("interval") # {}
    /\ IsCheckpoint(output[Len(output)])

\* What a primary-key declaration is, by its shape.
IsFlatListOfStr(k) ==
    k.type = "list" /\ \A i \in 1..Len(k.items) : k.items[i].type = "str"
IsListOfLists(k) ==
    k.type = "list" /\ \A i \in 1..Len(k.items) : k.items[i].type = "list"
WellFormedKey(k) == k.type = "str" \/ IsFlatListOfStr(k) \/ IsListOfLists(k)
Materialized == pc = "materialized"

\* C23 (as claimed): materializing the descriptor raises ValueError for every
\* declared primary key that is neither a string, a flat list of strings nor
\* a list of lists, and otherwise yields the key normalized to a list of
\* lists.
C23_MalformedKeyRaisesElseNormalized ==
    (Materialized /\ descriptor.primary_key # PyNone) =>
        LET k == descriptor.primary_key
        IN  IF WellFormedKey(k)
            THEN /\ descriptor.built
                 /\ PyTruthy(k) =>
                        descriptor.source_defined_primary_key =
                            IF k.type = "str" THEN << << <<k.str>> >> >>
                            ELSE << [i \in 1..Len(k.items) |-> WrapComponent(k.items[i])] >>
            ELSE descriptor.raised

\* C23 (amended): materializing the descriptor raises ValueError exactly for a
\* truthy declaration that is neither a string nor a list, or that is a list
\* with a component that is neither a string nor a list; a falsy declaration
\* (None, "", [], 0) yields no primary key; every other declaration, a list
\* mixing strings and lists included, yields the key normalized component by
\* component to a list of lists.
C23_TruthyNonListOrBadComponentRaises ==
    Materialized =>
        LET k == descriptor.primary_key
            bad == \/ k.type \notin {"str", "list"}
                   \/ /\ k.type = "list"
                      /\ \E i \in 1..Len(k.items) : k.items[i].type \notin {"str", "list"}
        IN  /\ descriptor.raised <=> (PyTruthy(k) /\ bad)
            /\ descriptor.built <=> ~descriptor.raised
            /\ (descriptor.built /\ ~PyTruthy(k)) => descriptor.source_defined_primary_key = None
            /\ (descriptor.built /\ PyTruthy(k)) =>
                   descriptor.source_defined_primary_key =
                       IF k.type = "str" THEN << << <<k.str>> >> >>
                       ELSE << [i \in 1..Len(k.items) |-> WrapComponent(k.items[i])] >>

C23_Witness ==
    /\ Materialized
    /\ descriptor.primary_key = PyList(<<CStr("id"), CList(<<"id", "name">>)>>)
    /\ descriptor.built
    /\ descriptor.source_defined_primary_key = << << <<"id">>, <<"id", "name">> >> >>

\* C24: every checkpoint flush of read() is one update_state_for_stream call
\* immediately followed by one create_state_message call for the same stream
\* name and namespace, with nothing emitted in between, and the message
\* emitted next carries the state stored; as many state messages are emitted
\* as update calls are made.
C24_FlushIsUpdateThenCreate ==
    /\ \A i \in CallsOf("update_state_for_stream") :
           /\ i < Len(calls)
           /\ calls[i + 1].op = "create_state_message"
           /\ calls[i + 1].key = calls[i].key
           /\ calls[i].key = StreamKey
           /\ calls[i + 1].at = calls[i].at
           /\ calls[i].at < Len(output)
           /\ IsCheckpoint(output[calls[i].at + 1])
           /\ output[calls[i].at + 1].state = calls[i].arg
    /\ \A i \in CallsOf("create_state_message") :
           i > 1 /\ calls[i - 1].op = "update_state_for_stream"
    /\ Cardinality(AllCheckpoints) = Cardinality(CallsOf("update_state_for_stream"))

C24_Witness ==
    /\ Finished
    /\ Cardinality(CheckpointsAt("interval")) = 2
    /\ Cardinality(CheckpointsAt("boundary")) = 1
    /\ Cardinality(CallsOf("update_state_for_stream")) = 3
    /\ Cardinality(CallsOf("create_state_message")) = 3

\* C25: the sentinel state is persisted only by the final checkpoint of a
\* full_refresh sync, never in an incremental sync, never after a checkpoint
\* of the same sync persisted a non-empty state, and it is never handed to
\* stream_slices(), read_records() or the checkpoint reader.
C25_SentinelOnlyFinalNeverResumed ==
    /\ \A i \in AllCheckpoints :
           output[i].state = SentinelState =>
               /\ output[i].site = "final"
               /\ args.sync_mode = full_refresh
               /\ \A j \in AllCheckpoints : j < i => ~Truthy(output[j].state)
    /\ checkpoint_reader._state # SentinelState
    /\ \A u \in 1..Len(read_calls) :
           /\ read_calls[u].stream_state # SentinelState
           /\ read_calls[u].stream_slice # StateUnit(SentinelState)
    /\ \A i \in CallsOf("stream_slices") \cup CallsOf("observe") :
           calls[i].arg # SentinelState

\* The cursor value a state bookmarks (0 when it bookmarks none).
CursorOf(s) == Get(s, CursorKey)

\* C26: for a resource whose state the loop derives itself, a checkpoint only
\* bookmarks a cursor that came in with the sync or belongs to a record
\* already emitted, and no checkpoint lags behind an earlier checkpoint of the
\* same attempt; also when the record limit cut the partition short.
C26_CheckpointNeitherSkipsNorLags ==
    (~stream.has_state /\ ~stream.supports_resumable_full_refresh) =>
        \A i \in AllCheckpoints :
            /\ \/ CursorOf(output[i].state) \in {0, CursorOf(args.stream_state)}
               \/ \E j \in 1..(i - 1) :
                      /\ output[j].type = "RECORD"
                      /\ output[j].cursor = CursorOf(output[i].state)
            /\ \A j \in AllCheckpoints :
                   j < i => CursorOf(output[j].state) <= CursorOf(output[i].state)

\* A legacy cursor-incremental resource.
LegacyCursorStream(s) ==
    /\ s.overrides_get_updated_state
    /\ CursorFieldDeclared(s)
    /\ ~s.has_state
    /\ ~s.supports_resumable_full_refresh

\* C27: for a legacy cursor-incremental resource whose get_updated_state()
\* keeps the larger cursor, no step of read() lowers the cursor held by the
\* checkpoint reader, and no step emits a checkpoint whose cursor is lower
\* than the reader's or than the state manager's before the step.
C27_LegacyCursorNeverDecreases ==
    [][ LegacyCursorStream(stream) =>
            /\ CursorOf(checkpoint_reader'._state) >= CursorOf(checkpoint_reader._state)
            /\ CursorOf(manager_state'[StreamKey]) >= CursorOf(manager_state[StreamKey]) ]_vars

\* C28: a full_refresh sync with a checkpoint interval configured never
\* emits an interval checkpoint, so no checkpoint lies between two records of
\* a partition, however many records the partition holds.
C28_FullRefreshNeverIntervalCheckpoint ==
    (args.sync_mode = full_refresh /\ stream.state_checkpoint_interval > 0) =>
        /\ CheckpointsAt("interval") = {}
        /\ \A i \in 1..Len(output) : \A j \in 1..Len(output) :
               ( /\ i < j
                 /\ output[i].type = "RECORD"
                 /\ output[j].type = "RECORD"
                 /\ output[i].unit = output[j].unit ) =>
                   \A c \in AllCheckpoints : ~(i < c /\ c < j)

C28_Witness ==
    /\ Finished
    /\ args.sync_mode = full_refresh
    /\ CursorFieldDeclared(stream)
    /\ stream.state_checkpoint_interval = 1
    /\ DataRecordsOf(output, 1) = 2
    /\ CheckpointsAt("interval") = {}

\* The messages of read_records() among the emitted messages, in order.
EmittedFromReader == SelectSeq(output, LAMBDA m : m.site = "records")

\* C29: without a record limit and without a failure, the messages read()
\* emits from read_records() are exactly the items the generators yielded, in
\* the order they were yielded, each emitted before the next item is pulled,
\* and read_records() of a unit is called only after the boundary checkpoint
\* of the unit before.
C29_RecordsEmittedInOrderUnbuffered ==
    (args.limit = 0 /\ Failures = {}) =>
        /\ EmittedFromReader = [i \in 1..Len(yielded) |-> yielded[i].item]
        /\ \A i \in 1..Len(yielded) :
               /\ yielded[i].at < Len(output)
               /\ output[yielded[i].at + 1] = yielded[i].item
               /\ i < Len(yielded) => yielded[i].at < yielded[i + 1].at
        /\ \A u \in 2..Len(read_calls) : BoundariesOf(u - 1) # {}

C29_Witness ==
    /\ Finished
    /\ args.limit = 0
    /\ Failures = {}
    /\ args.sync_mode = incremental
    /\ stream.state_checkpoint_interval = 1
    /\ Len(yielded) = 2
    /\ yielded[1].item.type = "RECORD"
    /\ yielded[2].item.type = "LOG"
    /\ Len(EmittedFromReader) = 2

\* C30: get_updated_state() is invoked, and its result offered to the
\* checkpoint reader, once for each data record of a resource that declares a
\* cursor field and does not support resumable full refresh, right after the
\* record was emitted; for any other resource it is never invoked.
C30_GetUpdatedStateOnlyForCursorNonRfr ==
    /\ (~CursorFieldDeclared(stream) \/ stream.supports_resumable_full_refresh) =>
           CallsOf("get_updated_state") = {}
    /\ \A i \in CallsOf("get_updated_state") :
           /\ calls[i].at \in 1..Len(output)
           /\ output[calls[i].at].type = "RECORD"
    /\ (CursorFieldDeclared(stream) /\ ~stream.supports_resumable_full_refresh) =>
           Cardinality(CallsOf("get_updated_state")) =
               Cardinality({i \in 1..Len(output) : output[i].type = "RECORD"})

C30_Witness ==
    /\ Finished
    /\ ~CursorFieldDeclared(stream)
    /\ stream.overrides_get_updated_state
    /\ ~stream.supports_resumable_full_refresh
    /\ DataRecordsOf(output, 1) >= 1
    /\ CallsOf("get_updated_state") = {}

\* The positions in yielded of the items of one type.
YieldedOf(type) == {i \in 1..Len(yielded) : yielded[i].item.type = type}

\* C31: a message of read_records() that is no data record is emitted
\* unchanged in place and changes nothing else: the record counter counts
\* the data records only, the limit is tested against that count, every
\* interval checkpoint follows a data record and get_updated_state() and the
\* observations of the record loop happen for data records only.
C31_NonRecordMessagesOnlyEmitted ==
    /\ record_counter = InitialRecordCounter + Cardinality(YieldedOf("RECORD"))
    /\ \A i \in YieldedOf("LOG") :
           /\ yielded[i].at < Len(output)
           /\ output[yielded[i].at + 1] = yielded[i].item
           /\ (yielded[i].at + 1 < Len(output)) => output[yielded[i].at + 2].site # "interval"
           /\ \A j \in CallsOf("get_updated_state") : calls[j].at # yielded[i].at + 1
    /\ Cardinality(CallsOf("get_updated_state")) <= Cardinality(YieldedOf("RECORD"))
    /\ (args.limit > 0 /\ pc = "records") => Cardinality(YieldedOf("RECORD")) < args.limit

C31_Witness ==
    /\ pc = "records"
    /\ args.limit = 1
    /\ args.sync_mode = incremental
    /\ stream.state_checkpoint_interval = 1
    /\ LegacyCursorStream(stream)
    /\ Cardinality(YieldedOf("LOG")) = 2
    /\ record_counter = 0
    /\ AllCheckpoints = {}

\* The state known when read_records() is called for unit u: the state that
\* came in with the sync for the first unit, the state of the boundary
\* checkpoint of the unit before for a later one.
KnownStateBefore(u) ==
    IF u = 1 THEN args.stream_state
    ELSE output[CHOOSE b \in BoundariesOf(u - 1) : TRUE].state

C34_ReaderNeverHoldsEmptyMapping ==
    /\ checkpoint_reader._state # EmptyMapping
    /\ \A i \in CallsOf("observe") : Truthy(calls[i].arg)
    /\ checkpoint_reader._state =
           IF CallsOf("observe") = {} THEN None
           ELSE calls[CHOOSE i \in CallsOf("observe") :
                          \A j \in CallsOf("observe") : j <= i].arg

C34_Witness ==
    /\ Finished
    /\ stream.has_state
    /\ reported # <<>>
    /\ reported[1] = EmptyMapping
    /\ checkpoint_reader._state = None
    /\ CallsOf("observe") = {}

\* C35: as_airbyte_stream() always advertises full_refresh, and advertises
\* incremental exactly when a cursor field is declared, which is exactly when
\* supports_incremental is true.
C35_IncrementalAdvertisedIffCursorField ==
    /\ supports_incremental(stream) <=> CursorFieldDeclared(stream)
    /\ (Materialized /\ descriptor.built) =>
           /\ descriptor.supported_sync_modes # <<>>
           /\ descriptor.supported_sync_modes[1] = full_refresh
           /\ (\E i \in 1..Len(descriptor.supported_sync_modes) :
                   descriptor.supported_sync_modes[i] = incremental)
                  <=> CursorFieldDeclared(stream)

\* The attempts on self.state: those that found the state property and those
\* that ended in the AttributeError.
Attempts == CallsOf("state") \cup CallsOf("state!AttributeError")

\* C33: every reconciliation attempts the state property anew: each interval
\* and final flush and each observation follows an attempt of its own and
\* uses the property's value when the attempt found it, the state passed in
\* or derived by get_updated_state() when it did not; a property that
\* appeared during the sync is used from the next reconciliation on, and its
\* absence never ends read().
C33_AccessorAttemptedAtEveryReconciliation ==
    /\ \A i \in CallsOf("update_state_for_stream") :
           output[calls[i].at + 1].site \in {"interval", "final"} =>
               /\ i > 1
               /\ calls[i - 1].at = calls[i].at
               /\ calls[i - 1].op = "state" => calls[i].arg = calls[i - 1].arg
               /\ calls[i - 1].op = "state!AttributeError" =>
                      calls[i].arg = IF output[calls[i].at + 1].site = "final"
                                     THEN stream_state ELSE args.stream_state
               /\ calls[i - 1].op \in {"state", "state!AttributeError"}
    /\ \A i \in CallsOf("observe") :
           /\ i > 1
           /\ calls[i - 1].at = calls[i].at
           /\ calls[i - 1].op = "state" => calls[i].arg = calls[i - 1].arg
           /\ calls[i - 1].op = "state!AttributeError" =>
                  (i > 2 /\ calls[i - 2].op = "get_updated_state")
           /\ calls[i - 1].op \in {"state", "state!AttributeError"}
    /\ \A b \in CheckpointsAt("boundary") :
           \E i \in Attempts : calls[i].at = b - 1
    /\ \A i \in CallsOf("get_updated_state") :
           i < Len(calls) /\ calls[i + 1].op \in {"state", "state!AttributeError"}
    /\ \A j \in CallsOf("state!AttributeError") :
           \A i \in 1..(j - 1) : calls[i].op # "state"
    /\ pc = "raised" => Failures # {}

C33_Witness ==
    /\ Finished
    /\ args.sync_mode = incremental
    /\ stream.state_checkpoint_interval = 1
    /\ args.stream_state = EmptyMapping
    /\ Cardinality(CheckpointsAt("interval")) = 2
    /\ \E i \in CheckpointsAt("interval") : \E j \in CheckpointsAt("interval") :
           /\ i < j
           /\ output[i].state = EmptyMapping
           /\ output[j].state = Mapping(CursorKey, 1)
    /\ CallsOf("state!AttributeError") # {}
    /\ CallsOf("state") # {}

\* ------------------------------------------------ two interleaved read()s
\* What a frame's own log says it did.
DataRecordsPulled(f) ==
    Cardinality({i \in 1..Len(f.yielded) : f.yielded[i].item.type = "RECORD"})
PulledAndEmitted(f) ==
    LET pulled == SelectSeq(f.yielded, LAMBDA y : y.item.type # "ERROR")
    IN  [i \in 1..Len(pulled) |-> pulled[i].item]
EmittedByReader(f) == SelectSeq(f.output, LAMBDA m : m.type # "STATE")
UpdatesOf(f) == SelectSeq(f.calls, LAMBDA c : c.op = "update_state_for_stream")
ObservationsOf(f) == SelectSeq(f.calls, LAMBDA c : c.op = "observe")
LastArg(log) == IF log = <<>> THEN None ELSE log[Len(log)].arg

\* A frame is its generator's own: the counter, the messages, the reader's
\* state and the state manager's entry of its stream are what its own pulls and
\* calls make them, whatever the other generator did in between.
OwnedBy(f) ==
    /\ f.pc # "start" => f.record_counter = DataRecordsPulled(f)
    /\ EmittedByReader(f) = PulledAndEmitted(f)
    /\ \A i \in 1..Len(f.output) :
           f.output[i].type = "STATE" =>
               \E k \in 1..Len(f.calls) :
                   /\ f.calls[k].op = "update_state_for_stream"
                   /\ f.calls[k].arg = f.output[i].state
                   /\ f.calls[k].at = i - 1
    /\ Len(UpdatesOf(f)) = Len(SelectSeq(f.output, IsCheckpoint))
    /\ f.pc # "start" => ReaderReadState(f.checkpoint_reader) = LastArg(ObservationsOf(f))
    /\ \A k \in 1..Len(f.calls) : f.calls[k].key \in {NoKey, KeyOf(f.stream)}
    /\ manager_state[KeyOf(f.stream)] = LastArg(UpdatesOf(f))

PairIsolated ==
    /\ KeyOf(stream) # KeyOf(suspended.stream)
    /\ OwnedBy(ActiveFrame)
    /\ OwnedBy(suspended)

\* A step is the running generator's and leaves the other frame and every
\* other entry of the state manager alone, or it is the switch, which changes
\* neither frame nor the state manager.
OwnStepOrSwitch ==
    \/ /\ suspended' = suspended
       /\ \A k \in StreamKeys \ {KeyOf(stream)} : manager_state'[k] = manager_state[k]
    \/ /\ suspended' = ActiveFrame
       /\ ActiveFrame' = suspended
       /\ manager_state' = manager_state

\* C36: two streams read by interleaved read() loops share no mutable state:
\* under every interleaving each generator's record counter, emitted records
\* and checkpoints and reader state are those its own pulls and calls produce,
\* as when it runs alone, and a checkpoint writes the state manager's entry of
\* its own (name, namespace) only.
C36_InterleavedReadsShareNoState == []PairIsolated /\ [][OwnStepOrSwitch]_vars

C36_Witness ==
    \* both generators are in the middle of their unit: the running one has
    \* flushed its interval and boundary checkpoints, the suspended one its
    \* interval checkpoint only
    /\ pc = "loop"
    /\ suspended.pc = "boundary"
    /\ record_counter = 1
    /\ suspended.record_counter = 1
    /\ Len(UpdatesOf(ActiveFrame)) = 2
    /\ Len(UpdatesOf(suspended)) = 1
    /\ Truthy(manager_state[KeyOf(stream)])
    /\ Truthy(manager_state[KeyOf(suspended.stream)])
    /\ manager_state[StreamKey] # manager_state[OtherStreamKey]

\* ---------------------------------------------------- the publish pipeline
\* Helpers over the results collected and the steps run.
ReportCreated == pc = "returned"
RanSteps == {calls[i].arg : i \in 1..Len(calls)}
HasResult(step) == \E i \in 1..Len(results) : results[i].step = step
StatusOf(step) ==
    IF HasResult(step)
    THEN (CHOOSE r \in {results[i] : i \in 1..Len(results)} : r.step = step).status
    ELSE "none"

\* The documented order of the steps.
StepOrder ==
    << "MetadataValidation", "CheckConnectorImageDoesNotExist",
       "CheckPythonRegistryPackageDoesNotExist", "PublishToPythonRegistry",
       "run_connector_build", "UploadDependenciesToMetadataService",
       "PushConnectorImageToRegistry", "PullConnectorImageFromRegistry",
       "UploadSpecToCache", "UploadSbom", "MetadataUpload" >>
StepRank(step) == CHOOSE i \in 1..Len(StepOrder) : StepOrder[i] = step

ImageSteps == {"run_connector_build", "PushConnectorImageToRegistry",
               "PullConnectorImageFromRegistry"}
UploadSteps == {"UploadSpecToCache", "UploadSbom", "MetadataUpload"}
BuildPushPullUploadSteps ==
    ImageSteps \cup UploadSteps \cup {"UploadDependenciesToMetadataService"}

\* The python registry sub-pipeline told its caller to stop.
TerminatedEarly ==
    \/ StatusOf("PublishToPythonRegistry") = FAILURE
    \/ StatusOf("CheckPythonRegistryPackageDoesNotExist") = FAILURE

InOrder ==
    \A i \in 1..Len(results) : \A j \in 1..Len(results) :
        i < j => StepRank(results[i].step) < StepRank(results[j].step)

\* The metadata upload is the last step and is run only after everything
\* before it succeeded.
MetadataUploadLast ==
    "MetadataUpload" \in RanSteps =>
        /\ results[Len(results)].step = "MetadataUpload"
        /\ StatusOf("MetadataValidation") = SUCCESS
        /\ ~TerminatedEarly
        /\ StatusOf("UploadSpecToCache") = SUCCESS
        /\ StatusOf("UploadSbom") = SUCCESS
        /\ "run_connector_build" \in RanSteps =>
               /\ StatusOf("run_connector_build") = SUCCESS
               /\ StatusOf("PushConnectorImageToRegistry") = SUCCESS
               /\ StatusOf("PullConnectorImageFromRegistry") = SUCCESS

\* C37 (as claimed): the steps run in the documented order; the metadata
\* upload is last and is run only if validation, the python registry
\* sub-pipeline, the spec and SBOM uploads (and build, push and pull on the
\* build path) succeeded; after the first result that is not SUCCESS no
\* build, push, pull or upload step runs; the report holds exactly the results
\* of the steps run, in order.
C37_StepsInOrderStopAtFirstNonSuccess ==
    /\ InOrder
    /\ MetadataUploadLast
    /\ \A i \in 1..Len(results) : \A j \in 1..Len(results) :
           (i < j /\ results[i].status # SUCCESS) =>
               results[j].step \notin BuildPushPullUploadSteps
    /\ ReportCreated =>
           /\ context.report = ConnectorReport(results)
           /\ [i \in 1..Len(results) |-> results[i].step]
                  = [i \in 1..Len(calls) |-> calls[i].arg]

\* The results that are not SUCCESS and yet let later steps run: an image check
\* that found the image published lets the three uploads run, a python registry
\* step that was skipped stops nothing, and the status of the dependencies
\* upload is not looked at.
LetsRun(r, step) ==
    \/ r = StepResult("CheckConnectorImageDoesNotExist", SKIPPED) /\ step \in UploadSteps
    \/ r = StepResult("CheckPythonRegistryPackageDoesNotExist", SKIPPED)
    \/ r = StepResult("PublishToPythonRegistry", SKIPPED)
    \/ r.step = "UploadDependenciesToMetadataService"

\* The result that stands for no step run: python publishing is enabled and
\* the registry token or url is not set.
ResultWithoutRun(i) ==
    /\ results[i] = StepResult("PublishToPythonRegistry", FAILURE)
    /\ context.python_registry_context
    /\ ~context.python_registry_credentials

\* C37 (amended): as claimed, except that a result that is not SUCCESS lets
\* later steps run in the cases of LetsRun, and that the report holds the
\* results collected: those of the steps run, in order, and the FAILURE
\* result made up for the python registry publish step when the token or url
\* is missing.
C37_StepsInOrderStopAtFirstStoppingResult ==
    /\ InOrder
    /\ MetadataUploadLast
    /\ \A i \in 1..Len(results) : \A j \in 1..Len(results) :
           (i < j /\ results[i].status # SUCCESS /\ ~LetsRun(results[i], results[j].step)) =>
               results[j].step \notin BuildPushPullUploadSteps
    /\ \A i \in 1..Len(results) :
           (StatusOf("CheckConnectorImageDoesNotExist") = SKIPPED
                => results[i].step \notin ImageSteps)
    /\ ReportCreated =>
           /\ context.report = ConnectorReport(results)
           /\ LET ran == {i \in 1..Len(results) : ~ResultWithoutRun(i)}
              IN  /\ Cardinality(ran) = Len(calls)
                  /\ \A i \in ran : \E k \in 1..Len(calls) :
                         /\ calls[k].arg = results[i].step
                         /\ calls[k].at = i - 1
                  /\ \A i \in 1..Len(results) :
                         ResultWithoutRun(i) => i = Len(results)

C37_Witness ==
    /\ ReportCreated
    /\ StatusOf("CheckPythonRegistryPackageDoesNotExist") = SKIPPED
    /\ StatusOf("UploadDependenciesToMetadataService") = FAILURE
    /\ StatusOf("PushConnectorImageToRegistry") = SUCCESS
    /\ results[Len(results)] = StepResult("PullConnectorImageFromRegistry", FAILURE)
    /\ context.report.steps_results = results

\* C38 (as claimed): an image check that is SKIPPED is followed by no build,
\* push or pull and by the spec, SBOM and metadata uploads; an image check that
\* is FAILURE is followed by none of the six.
C38_PublishedImageStillUploads ==
    /\ StatusOf("CheckConnectorImageDoesNotExist") = SKIPPED =>
           /\ RanSteps \cap ImageSteps = {}
           /\ ReportCreated => UploadSteps \subseteq RanSteps
    /\ StatusOf("CheckConnectorImageDoesNotExist") = FAILURE =>
           RanSteps \cap (ImageSteps \cup UploadSteps) = {}

\* C38 (amended): an image check that is SKIPPED is followed by no build, push
\* or pull; the spec upload runs unless the python registry sub-pipeline
\* stopped the pipeline, the SBOM upload runs if the spec upload succeeded and
\* the metadata upload if the SBOM upload succeeded. An image check that is
\* FAILURE is followed by none of the six.
C38_PublishedImageUploadsWhileStepsSucceed ==
    /\ StatusOf("CheckConnectorImageDoesNotExist") = SKIPPED =>
           /\ RanSteps \cap ImageSteps = {}
           /\ ReportCreated =>
                  /\ "UploadSpecToCache" \in RanSteps <=> ~TerminatedEarly
                  /\ "UploadSbom" \in RanSteps <=> StatusOf("UploadSpecToCache") = SUCCESS
                  /\ "MetadataUpload" \in RanSteps <=> StatusOf("UploadSbom") = SUCCESS
    /\ StatusOf("CheckConnectorImageDoesNotExist") = FAILURE =>
           RanSteps \cap (ImageSteps \cup UploadSteps) = {}

C38_Witness ==
    /\ ReportCreated
    /\ StatusOf("CheckConnectorImageDoesNotExist") = SKIPPED
    /\ UploadSteps \subseteq RanSteps
    /\ "run_connector_build" \notin RanSteps
    /\ results[Len(results)].step = "MetadataUpload"

\* -------------------------------------------------- the registry steps' _run
RunEnded == pc \in {"returned", "raised"}
IsRegistryError(a) == a.outcome \in {"QueryError", "QueryError on latest", "ExecError"}
Succeeded(a) == a.outcome \in {"published", "gzip"}

RetriesBounded ==
    \* at most 3 retries, 4 attempts in all, each with one attempt less left
    /\ Len(registry) <= 4
    /\ \A i \in 1..Len(registry) : registry[i].attempts = 3 - (i - 1)
    \* only a registry error is retried
    /\ \A i \in 1..Len(registry) :
           (i < Len(registry) \/ ~RunEnded) => IsRegistryError(registry[i])
    \* an attempt that succeeds ends the call with SUCCESS
    /\ \A i \in 1..Len(registry) :
           Succeeded(registry[i]) =>
               /\ i = Len(registry)
               /\ pc = "returned"
               /\ results = <<StepResult(registry[i].step, SUCCESS)>>
    /\ (pc = "returned" /\ results[1].status = SUCCESS) => Succeeded(registry[Len(registry)])
    \* a registry error with the budget used up ends the call with FAILURE
    /\ (Len(registry) = 4 /\ IsRegistryError(registry[4])) =>
           /\ pc = "returned"
           /\ results = <<StepResult(registry[4].step, FAILURE)>>
    /\ (pc = "returned" /\ results[1].status = FAILURE) =>
           \/ Len(registry) = 4 /\ IsRegistryError(registry[4])
           \/ registry[Len(registry)].outcome = "not gzip"
    \* the latest tag is published for a plain release only
    /\ \A i \in 1..Len(registry) :
           (\E k \in 1..Len(registry[i].published) : registry[i].published[k] = "latest")
               => (~context.is_release_candidate /\ ~context.pre_release)

\* C39: a call of the push step's or the pull step's _run() ends; it makes at
\* most 4 attempts (3 retries), the pull step counting ExecError and QueryError
\* against the one budget; it returns FAILURE when a registry error finds the
\* budget used up and SUCCESS as soon as an attempt succeeds; the latest tag is
\* published only for a connector that is neither a release candidate nor a
\* pre-release.
C39_RegistryRetriesBoundedAndEnd == []RetriesBounded /\ <>RunEnded

C39_Witness ==
    /\ pc = "returned"
    /\ results = <<StepResult("PullConnectorImageFromRegistry", FAILURE)>>
    /\ Len(registry) = 4
    /\ \E i \in 1..4 : registry[i].outcome = "ExecError"
    /\ \E i \in 1..4 : registry[i].outcome = "QueryError"
    /\ registry[4].attempts = 0

====
